---- MODULE Spec2Model ----
(***************************************************************************)
(* Reversi / Othello engine of src/src/Iago.py: the Board (grid, side to   *)
(* move, undo history, redo stack, move log), its move generator, and the  *)
(* search-based AI that picks a move for a side.                           *)
(*                                                                         *)
(* Coordinates are 0-based (row, col) as in the Python source.  Python     *)
(* lists are sequences (a grid is a sequence of rows), so cell (r, c) of   *)
(* a grid g is g[r + 1][c + 1]; Python tuples are TLA+ tuples.             *)
(***************************************************************************)
EXTENDS Integers, Sequences, FiniteSets, TLC

VARIABLES
    size,                \* Board.size
    grid,                \* Board.grid
    to_move,             \* Board.to_move
    history,             \* Board.history    : list of (grid snapshot, side)
    redo_stack,          \* Board.redo_stack : list of (grid snapshot, side)
    move_list,           \* Board.move_list  : list of (color, r, c)
    max_depth,           \* AI.max_depth
    transposition_table, \* AI.transposition_table
    nodes_searched,      \* AI.nodes_searched
    settings,            \* Game.settings   : theme, ai_black, ai_white
    ui,                  \* Game.ui         : move_history, replay_mode, replay_index
    game,                \* game.py's Game  : its board.py Board, its AI, its stacks
    op,                  \* name of the operation that produced this state
    arg,                 \* the argument that operation was called with
    ret,                 \* the value that operation returned
    prev                 \* the Board fields as they were before that operation

vars == <<size, grid, to_move, history, redo_stack, move_list,
          max_depth, transposition_table, nodes_searched,
          settings, ui, game, op, arg, ret, prev>>

boardVars == <<size, grid, to_move, history, redo_stack, move_list>>
aiVars == <<max_depth, transposition_table, nodes_searched>>
\* the rest of an Iago session (Iago.py's Game)
sessionVars == <<settings, ui>>
\* everything of Iago.py
iagoVars == <<boardVars, aiVars, sessionVars>>

-----------------------------------------------------------------------------
(* Bounds of the model *)

\* longest undo history explored (number of make_move / pass_turn in a line)
MaxPly == 3
\* deepest redo stack explored (number of consecutive undo calls)
MaxRedo == 1
\* most discs on a hand-built grid given to legal_moves
MaxDiscs == 3

-----------------------------------------------------------------------------
(* Core game state: constants *)

EMPTY == 0
BLACK == 1
WHITE == 2

\* Python's None (falsy, like 0 in `color or self.to_move`)
None == 0

\* Python's None where a Move is expected (Optional[Move])
NoMove == [row |-> -1, col |-> -1, flips |-> <<>>]

OPP(color) == IF color = BLACK THEN WHITE ELSE BLACK

DIRS == << <<-1, -1>>, <<-1, 0>>, <<-1, 1>>, <<0, -1>>,
           <<0, 1>>, <<1, -1>>, <<1, 0>>, <<1, 1>> >>

Cells(n) == (0 .. n - 1) \X (0 .. n - 1)

\* grid[r][c]
at(g, r, c) == g[r + 1][c + 1]

-----------------------------------------------------------------------------
(* Board: construction *)

\* InitialGrid with the two colors on the wrong diagonals
InitialGrid_swapped(n) ==
    LET m == n \div 2
    IN  [i \in 1 .. n |-> [j \in 1 .. n |->
            IF <<i - 1, j - 1>> \in {<<m - 1, m - 1>>, <<m, m>>} THEN BLACK
            ELSE IF <<i - 1, j - 1>> \in {<<m - 1, m>>, <<m, m - 1>>} THEN WHITE
            ELSE EMPTY]]

\* Board.__post_init__ with no grid given: the canonical 4-disc position
InitialGrid(n) ==
    LET m == n \div 2
    IN  [i \in 1 .. n |-> [j \in 1 .. n |->
            IF <<i - 1, j - 1>> \in {<<m - 1, m - 1>>, <<m, m>>} THEN WHITE
            ELSE IF <<i - 1, j - 1>> \in {<<m - 1, m>>, <<m, m - 1>>} THEN BLACK
            ELSE EMPTY]]

\* Board(size=n)
NewBoard(n) ==
    [size |-> n, grid |-> InitialGrid(n), to_move |-> BLACK,
     history |-> <<>>, redo_stack |-> <<>>, move_list |-> <<>>]

\* the live Board object as one value
board ==
    [size |-> size, grid |-> grid, to_move |-> to_move,
     history |-> history, redo_stack |-> redo_stack, move_list |-> move_list]

\* [row[:] for row in self.grid]
copy_grid(b) == [i \in DOMAIN b.grid |-> [j \in DOMAIN b.grid[i] |-> b.grid[i][j]]]

inside(b, r, c) == 0 <= r /\ r < b.size /\ 0 <= c /\ c < b.size

-----------------------------------------------------------------------------
(* Board.legal_moves *)

\* the inner while loop: the run of opponent discs starting at (rr, cc)
RECURSIVE line(_, _, _, _, _, _)
line(b, rr, cc, dr, dc, opp) ==
    IF inside(b, rr, cc) /\ at(b.grid, rr, cc) = opp
    THEN << <<rr, cc>> >> \o line(b, rr + dr, cc + dc, dr, dc, opp)
    ELSE <<>>

\* dir_flips without the test for the closing disc of `color`
dir_flips_noend(b, r, c, d, color) ==
    line(b, r + DIRS[d][1], c + DIRS[d][2], DIRS[d][1], DIRS[d][2], OPP(color))

\* one iteration of `for dr, dc in DIRS`: what it extends flips by
dir_flips(b, r, c, d, color) ==
    LET dr == DIRS[d][1]
        dc == DIRS[d][2]
        ln == line(b, r + dr, c + dc, dr, dc, OPP(color))
        rr == r + dr * (Len(ln) + 1)
        cc == c + dc * (Len(ln) + 1)
    IN  IF ln # <<>> /\ inside(b, rr, cc) /\ at(b.grid, rr, cc) = color
        THEN ln
        ELSE <<>>

\* the loop over DIRS from direction d on
RECURSIVE cell_flips(_, _, _, _, _)
cell_flips(b, r, c, d, color) ==
    IF d > Len(DIRS) THEN <<>>
    ELSE dir_flips(b, r, c, d, color) \o cell_flips(b, r, c, d + 1, color)

\* the inner loop `for c in range(self.size)` of row r, from column c on
RECURSIVE scan_row(_, _, _, _)
scan_row(b, r, c, color) ==
    IF c >= b.size THEN <<>>
    ELSE LET rest == scan_row(b, r, c + 1, color)
         IN  IF at(b.grid, r, c) # EMPTY THEN rest
             ELSE LET flips == cell_flips(b, r, c, 1, color)
                  IN  IF flips # <<>>
                      THEN << [row |-> r, col |-> c, flips |-> flips] >> \o rest
                      ELSE rest

\* the outer loop `for r in range(self.size)`, from row r on
RECURSIVE scan_rows(_, _, _)
scan_rows(b, r, color) ==
    IF r >= b.size THEN <<>>
    ELSE scan_row(b, r, 0, color) \o scan_rows(b, r + 1, color)

legal_moves(b, color) ==
    scan_rows(b, 0, IF color = None THEN b.to_move ELSE color)

-----------------------------------------------------------------------------
(* Board: mutators.  Each takes the Board value and gives the Board value  *)
(* the call leaves behind (and the return value where there is one).       *)

Range(s) == {s[i] : i \in DOMAIN s}

\* make_move without the loop that recolors the flips
make_move_noflips(b, mv) ==
    [b EXCEPT
        !.history = Append(b.history, <<copy_grid(b), b.to_move>>),
        !.redo_stack = <<>>,
        !.grid = [i \in DOMAIN b.grid |-> [j \in DOMAIN b.grid[i] |->
                    IF <<i - 1, j - 1>> = <<mv.row, mv.col>>
                    THEN b.to_move ELSE b.grid[i][j]]],
        !.move_list = Append(b.move_list, <<b.to_move, mv.row, mv.col>>),
        !.to_move = OPP(b.to_move)]

\* make_move without redo_stack.clear()
make_move_keepredo(b, mv) ==
    [b EXCEPT
        !.history = Append(b.history, <<copy_grid(b), b.to_move>>),
        !.grid = [i \in DOMAIN b.grid |-> [j \in DOMAIN b.grid[i] |->
                    IF <<i - 1, j - 1>> = <<mv.row, mv.col>>
                       \/ <<i - 1, j - 1>> \in Range(mv.flips)
                    THEN b.to_move ELSE b.grid[i][j]]],
        !.move_list = Append(b.move_list, <<b.to_move, mv.row, mv.col>>),
        !.to_move = OPP(b.to_move)]

make_move(b, mv) ==
    [b EXCEPT
        !.history = Append(b.history, <<copy_grid(b), b.to_move>>),
        !.redo_stack = <<>>,
        !.grid = [i \in DOMAIN b.grid |-> [j \in DOMAIN b.grid[i] |->
                    IF <<i - 1, j - 1>> = <<mv.row, mv.col>>
                       \/ <<i - 1, j - 1>> \in Range(mv.flips)
                    THEN b.to_move ELSE b.grid[i][j]]],
        !.move_list = Append(b.move_list, <<b.to_move, mv.row, mv.col>>),
        !.to_move = OPP(b.to_move)]

\* pass_turn without the move-log entry
pass_turn_nolog(b) ==
    [b EXCEPT
        !.history = Append(b.history, <<copy_grid(b), b.to_move>>),
        !.redo_stack = <<>>,
        !.to_move = OPP(b.to_move)]

pass_turn(b) ==
    [b EXCEPT
        !.history = Append(b.history, <<copy_grid(b), b.to_move>>),
        !.redo_stack = <<>>,
        !.move_list = Append(b.move_list, <<b.to_move, -1, -1>>),
        !.to_move = OPP(b.to_move)]

\* undo without move_list.pop()
undo_keeplog(b) ==
    IF b.history = <<>> THEN [b |-> b, ret |-> FALSE]
    ELSE LET top == b.history[Len(b.history)]
         IN  [b |-> [b EXCEPT
                        !.redo_stack = Append(b.redo_stack,
                                              <<copy_grid(b), b.to_move>>),
                        !.history = SubSeq(b.history, 1, Len(b.history) - 1),
                        !.grid = top[1],
                        !.to_move = top[2]],
              ret |-> TRUE]

undo(b) ==
    IF b.history = <<>> THEN [b |-> b, ret |-> FALSE]
    ELSE LET top == b.history[Len(b.history)]
         IN  [b |-> [b EXCEPT
                        !.redo_stack = Append(b.redo_stack,
                                              <<copy_grid(b), b.to_move>>),
                        !.history = SubSeq(b.history, 1, Len(b.history) - 1),
                        !.grid = top[1],
                        !.to_move = top[2],
                        !.move_list = IF b.move_list # <<>>
                                      THEN SubSeq(b.move_list, 1,
                                                  Len(b.move_list) - 1)
                                      ELSE b.move_list],
              ret |-> TRUE]

\* redo that pushes the current position before it looks at the redo stack
redo_pushfirst(b) ==
    LET pushed == [b EXCEPT !.history = Append(b.history,
                                               <<copy_grid(b), b.to_move>>)]
    IN  IF b.redo_stack = <<>> THEN [b |-> pushed, ret |-> FALSE]
        ELSE LET top == b.redo_stack[Len(b.redo_stack)]
             IN  [b |-> [pushed EXCEPT
                            !.redo_stack = SubSeq(b.redo_stack, 1,
                                                  Len(b.redo_stack) - 1),
                            !.grid = top[1],
                            !.to_move = top[2]],
                  ret |-> TRUE]

redo(b) ==
    IF b.redo_stack = <<>> THEN [b |-> b, ret |-> FALSE]
    ELSE LET top == b.redo_stack[Len(b.redo_stack)]
         IN  [b |-> [b EXCEPT
                        !.history = Append(b.history,
                                           <<copy_grid(b), b.to_move>>),
                        !.redo_stack = SubSeq(b.redo_stack, 1,
                                              Len(b.redo_stack) - 1),
                        !.grid = top[1],
                        !.to_move = top[2]],
              ret |-> TRUE]

\* Board.score: (black count, white count)
score(b) ==
    << Cardinality({x \in Cells(Len(b.grid)) : at(b.grid, x[1], x[2]) = BLACK}),
       Cardinality({x \in Cells(Len(b.grid)) : at(b.grid, x[1], x[2]) = WHITE}) >>

\* game_over that asks only about the side to move
game_over_tomove(b) == legal_moves(b, b.to_move) = <<>>

game_over(b) ==
    legal_moves(b, BLACK) = <<>> /\ legal_moves(b, WHITE) = <<>>

\* Board.serialize: the dict {size, grid, to_move, move_list}
serialize(b) ==
    [size |-> b.size, grid |-> b.grid, to_move |-> b.to_move,
     move_list |-> b.move_list]

\* deserialize that leaves to_move at the new Board's default
deserialize_nomove(obj) ==
    [NewBoard(obj.size) EXCEPT
        !.grid = [i \in DOMAIN obj.grid |->
                    [j \in DOMAIN obj.grid[i] |-> obj.grid[i][j]]],
        !.move_list = obj.move_list,
        !.history = <<>>,
        !.redo_stack = <<>>]

\* Board.deserialize: a new Board(size) whose grid, to_move and move_list are
\* then overwritten from the dict and whose history and redo stack are cleared
deserialize(obj) ==
    [NewBoard(obj.size) EXCEPT
        !.grid = [i \in DOMAIN obj.grid |->
                    [j \in DOMAIN obj.grid[i] |-> obj.grid[i][j]]],
        !.to_move = obj.to_move,
        !.move_list = obj.move_list,
        !.history = <<>>,
        !.redo_stack = <<>>]

-----------------------------------------------------------------------------
(* A saved game: the position a session reaches by these clicks on a new    *)
(* 4x4 board, written by on_save and read back by on_load.                  *)

\* Game.play(r, c) as far as the Board is concerned: an illegal click is
\* refused and leaves the board alone
play(b, r, c) ==
    LET legal == legal_moves(b, b.to_move)
        hits == {i \in DOMAIN legal : legal[i].row = r /\ legal[i].col = c}
    IN  IF hits = {} THEN b
        ELSE make_move(b, legal[CHOOSE i \in hits : TRUE])

RECURSIVE play_all(_, _)
play_all(b, clicks) ==
    IF clicks = <<>> THEN b
    ELSE play_all(play(b, clicks[1][1], clicks[1][2]), Tail(clicks))

SavedClicks == << <<0, 1>>, <<0, 2>>, <<0, 3>>, <<0, 0>> >>

\* what on_save writes after the first k of these clicks
SavedAfter(k) == serialize(play_all(NewBoard(4), SubSeq(SavedClicks, 1, k)))

SavedGame == SavedAfter(Len(SavedClicks))

\* board sizes a session is started with
Sizes == {4, 8}

-----------------------------------------------------------------------------
(* The objects around the Board as they are constructed *)

\* Settings(): the fields the session's play depends on
NewSettings == [theme |-> "classic", ai_black |-> FALSE, ai_white |-> TRUE]

\* UIState(): the move history shown in the side panel and used by replay,
\* and the replay fields
NewUI == [move_history |-> <<>>, replay_mode |-> FALSE, replay_index |-> 0]

\* board.py Board.reset: the grid it builds
reset_grid(n) ==
    LET center == n \div 2
    IN  [i \in 1 .. n |-> [j \in 1 .. n |->
            IF <<i - 1, j - 1>> \in {<<center - 1, center - 1>>,
                                     <<center, center>>} THEN WHITE
            ELSE IF <<i - 1, j - 1>> \in {<<center - 1, center>>,
                                          <<center, center - 1>>} THEN BLACK
            ELSE EMPTY]]

\* board.py Board(size): winner None is written NoWinner
NoWinner == -1

Board_init(n) ==
    [size |-> n, grid |-> reset_grid(n), current_player |-> BLACK,
     game_over |-> FALSE, winner |-> NoWinner]

\* game.py Game(): its Board(DEFAULT_BOARD_SIZE), AI(difficulty=2), colors,
\* the ai_thinking flag and the two stacks of saved states
DEFAULT_BOARD_SIZE == 8

Game_init ==
    [board |-> Board_init(DEFAULT_BOARD_SIZE), difficulty |-> 2,
     player_color |-> BLACK, ai_color |-> WHITE, ai_thinking |-> FALSE,
     move_history |-> <<>>, redo_stack |-> <<>>]

-----------------------------------------------------------------------------
(* The Board under the session's operations *)

SetBoard(b) ==
    /\ size' = b.size
    /\ grid' = b.grid
    /\ to_move' = b.to_move
    /\ history' = b.history
    /\ redo_stack' = b.redo_stack
    /\ move_list' = b.move_list

InitAI ==
    /\ max_depth = 4
    /\ transposition_table = <<>>
    /\ nodes_searched = 0

InitBoard(b, how) ==
    /\ size = b.size
    /\ grid = b.grid
    /\ to_move = b.to_move
    /\ history = b.history
    /\ redo_stack = b.redo_stack
    /\ move_list = b.move_list
    /\ op = how
    /\ arg = None
    /\ ret = None
    /\ prev = b
    /\ settings = NewSettings
    /\ ui = NewUI
    /\ game = Game_init

\* Board(size=n) at start-up or on_new ("new"), or Board.deserialize(obj) in
\* on_load ("load")
Init ==
    /\ \/ InitBoard(NewBoard(4), "new")
       \/ InitBoard(deserialize(SavedGame), "load")
    /\ InitAI

\* Game.play on a legal cell: board.make_move(mv) with mv from legal_moves
MakeMove ==
    /\ Len(history) < MaxPly
    /\ \E mv \in Range(legal_moves(board, None)) :
          /\ SetBoard(make_move(board, mv))
          /\ op' = "make_move"
          /\ arg' = mv
          /\ ret' = None
    /\ prev' = board
    /\ UNCHANGED <<sessionVars, game>>
    /\ UNCHANGED aiVars

\* Game.maybe_pass: board.pass_turn() when the side to move has no legal move
PassTurn ==
    /\ Len(history) < MaxPly
    /\ legal_moves(board, to_move) = <<>>
    /\ SetBoard(pass_turn(board))
    /\ op' = "pass_turn"
    /\ arg' = None
    /\ ret' = None
    /\ prev' = board
    /\ UNCHANGED <<sessionVars, game>>
    /\ UNCHANGED aiVars

\* Game.on_undo: board.undo()
Undo ==
    /\ Len(redo_stack) < MaxRedo
    /\ LET res == undo(board)
       IN  SetBoard(res.b) /\ ret' = res.ret
    /\ op' = "undo"
    /\ arg' = None
    /\ prev' = board
    /\ UNCHANGED <<sessionVars, game>>
    /\ UNCHANGED aiVars

\* Game.on_redo: board.redo()
Redo ==
    /\ LET res == redo(board)
       IN  SetBoard(res.b) /\ ret' = res.ret
    /\ op' = "redo"
    /\ arg' = None
    /\ prev' = board
    /\ UNCHANGED <<sessionVars, game>>
    /\ UNCHANGED aiVars

\* Board.deserialize(board.serialize()): the copy handed to look-ahead code
Clone ==
    /\ op' = "deserialize"
    /\ arg' = serialize(board)
    /\ ret' = deserialize(serialize(board))
    /\ prev' = board
    /\ UNCHANGED <<sessionVars, game>>
    /\ UNCHANGED boardVars
    /\ UNCHANGED aiVars

Next == MakeMove \/ PassTurn \/ Undo \/ Redo \/ Clone

Spec == Init /\ [][Next]_vars

-----------------------------------------------------------------------------
(* The move generator as a function of the grid: boards built with an      *)
(* explicit grid (Board(size, grid)), new boards and saved games, each      *)
(* queried with legal_moves(color) or legal_moves().                        *)

\* Board(size=4, grid=...) with the discs of `discs` placed; to_move keeps
\* its default
HandBuilt(discs, colors) ==
    [NewBoard(4) EXCEPT
        !.grid = [i \in 1 .. 4 |-> [j \in 1 .. 4 |->
                    IF <<i - 1, j - 1>> \in discs
                    THEN colors[<<i - 1, j - 1>>] ELSE EMPTY]]]

InitGrid ==
    /\ \/ \E discs \in SUBSET Cells(4) :
            /\ Cardinality(discs) <= MaxDiscs
            /\ \E colors \in [discs -> {BLACK, WHITE}] :
                  InitBoard(HandBuilt(discs, colors), "build")
       \/ \E n \in Sizes : InitBoard(NewBoard(n), "new")
       \/ \E k \in DOMAIN SavedClicks :
            InitBoard(deserialize(SavedAfter(k)), "load")
    /\ InitAI

\* board.legal_moves(color), or board.legal_moves() when color is None
LegalMoves ==
    /\ op # "legal_moves"
    /\ \E color \in {None, BLACK, WHITE} :
          /\ arg' = color
          /\ ret' = legal_moves(board, color)
    /\ op' = "legal_moves"
    /\ prev' = board
    /\ UNCHANGED <<sessionVars, game>>
    /\ UNCHANGED boardVars
    /\ UNCHANGED aiVars

NextGrid == LegalMoves

SpecGrid == InitGrid /\ [][NextGrid]_vars

-----------------------------------------------------------------------------
(* AI: position value tables *)

PST_4 ==
     << <<200, -50, -50, 200>>,
        <<-50, -100, -100, -50>>,
        <<-50, -100, -100, -50>>,
        <<200, -50, -50, 200>> >>

PST_6 ==
     << <<120, -20, 20, 20, -20, 120>>,
        <<-20, -40, -5, -5, -40, -20>>,
        <<20, -5, 15, 15, -5, 20>>,
        <<20, -5, 15, 15, -5, 20>>,
        <<-20, -40, -5, -5, -40, -20>>,
        <<120, -20, 20, 20, -20, 120>> >>

PST_8 ==
     << <<120, -20, 20, 5, 5, 20, -20, 120>>,
        <<-20, -40, -5, -5, -5, -5, -40, -20>>,
        <<20, -5, 15, 3, 3, 15, -5, 20>>,
        <<5, -5, 3, 3, 3, 3, -5, 5>>,
        <<5, -5, 3, 3, 3, 3, -5, 5>>,
        <<20, -5, 15, 3, 3, 15, -5, 20>>,
        <<-20, -40, -5, -5, -5, -5, -40, -20>>,
        <<120, -20, 20, 5, 5, 20, -20, 120>> >>

PST_10 ==
     << <<150, -25, 25, 10, 5, 5, 10, 25, -25, 150>>,
        <<-25, -50, -8, -8, -8, -8, -8, -8, -50, -25>>,
        <<25, -8, 20, 5, 3, 3, 5, 20, -8, 25>>,
        <<10, -8, 5, 5, 3, 3, 5, 5, -8, 10>>,
        <<5, -8, 3, 3, 3, 3, 3, 3, -8, 5>>,
        <<5, -8, 3, 3, 3, 3, 3, 3, -8, 5>>,
        <<10, -8, 5, 5, 3, 3, 5, 5, -8, 10>>,
        <<25, -8, 20, 5, 3, 3, 5, 20, -8, 25>>,
        <<-25, -50, -8, -8, -8, -8, -8, -8, -50, -25>>,
        <<150, -25, 25, 10, 5, 5, 10, 25, -25, 150>> >>

PST_12 ==
     << <<180, -30, 30, 15, 8, 5, 5, 8, 15, 30, -30, 180>>,
        <<-30, -60, -10, -10, -10, -8, -8, -10, -10, -10, -60, -30>>,
        <<30, -10, 25, 8, 5, 3, 3, 5, 8, 25, -10, 30>>,
        <<15, -10, 8, 8, 5, 3, 3, 5, 8, 8, -10, 15>>,
        <<8, -10, 5, 5, 3, 3, 3, 3, 5, 5, -10, 8>>,
        <<5, -8, 3, 3, 3, 3, 3, 3, 3, 3, -8, 5>>,
        <<5, -8, 3, 3, 3, 3, 3, 3, 3, 3, -8, 5>>,
        <<8, -10, 5, 5, 3, 3, 3, 3, 5, 5, -10, 8>>,
        <<15, -10, 8, 8, 5, 3, 3, 5, 8, 8, -10, 15>>,
        <<30, -10, 25, 8, 5, 3, 3, 5, 8, 25, -10, 30>>,
        <<-30, -60, -10, -10, -10, -8, -8, -10, -10, -10, -60, -30>>,
        <<180, -30, 30, 15, 8, 5, 5, 8, 15, 30, -30, 180>> >>

\* the table get_pst generates for a size without a template
generated_pst(n) ==
    [i \in 1 .. n |-> [j \in 1 .. n |->
        LET r == i - 1
            c == j - 1
            center == n \div 2
            dr == IF r >= center THEN r - center ELSE center - r
            dc == IF c >= center THEN c - center ELSE center - c
            dist_from_center == IF dr >= dc THEN dr ELSE dc
        IN  IF (r = 0 \/ r = n - 1) /\ (c = 0 \/ c = n - 1) THEN 150
            ELSE IF \/ (r = 0 \/ r = n - 1) /\ (c = 1 \/ c = n - 2)
                    \/ (c = 0 \/ c = n - 1) /\ (r = 1 \/ r = n - 2) THEN -40
            ELSE IF \/ r = 1 /\ c = 1
                    \/ r = 1 /\ c = n - 2
                    \/ r = n - 2 /\ c = 1
                    \/ r = n - 2 /\ c = n - 2 THEN -20
            ELSE IF r = 0 \/ r = n - 1 \/ c = 0 \/ c = n - 1 THEN 25
            ELSE IF 10 - dist_from_center * 2 >= 0
                 THEN 10 - dist_from_center * 2 ELSE 0]]

get_pst(board_size) ==
    CASE board_size = 4 -> PST_4
      [] board_size = 6 -> PST_6
      [] board_size = 8 -> PST_8
      [] board_size = 10 -> PST_10
      [] board_size = 12 -> PST_12
      [] OTHER -> generated_pst(board_size)

\* pst[r][c] if r < len(pst) and c < len(pst[0]) else 0
pst_value(pst, r, c) ==
    IF r < Len(pst) /\ c < Len(pst[1]) THEN pst[r + 1][c + 1] ELSE 0

-----------------------------------------------------------------------------
(* AI.evaluate and its helpers *)

\* float("inf"): above every score the engine computes
Inf == 1000000000

\* Python's max(a, b) and min(a, b)
max(a, b) == IF b > a THEN b ELSE a
min(a, b) == IF b < a THEN b ELSE a

is_corner(r, c, n) == (r = 0 \/ r = n - 1) /\ (c = 0 \/ c = n - 1)

\* `directions` of count_frontier_discs
directions == << <<-1, -1>>, <<-1, 0>>, <<-1, 1>>, <<0, -1>>,
                 <<0, 1>>, <<1, -1>>, <<1, 0>>, <<1, 1>> >>

RECURSIVE frontier_dirs_nobreak(_, _, _, _)
RECURSIVE frontier_dirs(_, _, _, _)

\* the loop over the directions without its break: one for every empty
\* neighbour of (r, c)
frontier_dirs_nobreak(b, r, c, k) ==
    IF k > Len(directions) THEN 0
    ELSE (IF /\ 0 <= r + directions[k][1] /\ r + directions[k][1] < b.size
             /\ 0 <= c + directions[k][2] /\ c + directions[k][2] < b.size
             /\ at(b.grid, r + directions[k][1], c + directions[k][2]) = EMPTY
          THEN 1 ELSE 0)
         + frontier_dirs_nobreak(b, r, c, k + 1)

\* `for dr, dc in directions` for the disc on (r, c), from the k-th direction
\* on: what it adds to frontier (it stops at the first empty neighbour)
frontier_dirs(b, r, c, k) ==
    IF k > Len(directions) THEN 0
    ELSE IF /\ 0 <= r + directions[k][1] /\ r + directions[k][1] < b.size
            /\ 0 <= c + directions[k][2] /\ c + directions[k][2] < b.size
            /\ at(b.grid, r + directions[k][1], c + directions[k][2]) = EMPTY
         THEN 1
         ELSE frontier_dirs(b, r, c, k + 1)

\* `for c in range(board.size)` of count_frontier_discs in row r, from
\* column c on
RECURSIVE frontier_row(_, _, _, _)
frontier_row(b, color, r, c) ==
    IF c >= b.size THEN 0
    ELSE (IF at(b.grid, r, c) = color THEN frontier_dirs(b, r, c, 1) ELSE 0)
         + frontier_row(b, color, r, c + 1)

\* `for r in range(board.size)` of count_frontier_discs, from row r on
RECURSIVE frontier_rows(_, _, _)
frontier_rows(b, color, r) ==
    IF r >= b.size THEN 0
    ELSE frontier_row(b, color, r, 0) + frontier_rows(b, color, r + 1)

count_frontier_discs(b, color) == frontier_rows(b, color, 0)

\* the contribution of the cells (r, c), (r, c+1), ... of row r to positional
RECURSIVE positional_row(_, _, _, _, _)
positional_row(b, color, pst, r, c) ==
    IF c >= b.size THEN 0
    ELSE LET piece == at(b.grid, r, c)
             value == pst_value(pst, r, c)
         IN  (IF piece = EMPTY THEN 0
              ELSE IF piece = color THEN value ELSE 0 - value)
             + positional_row(b, color, pst, r, c + 1)

RECURSIVE positional_rows(_, _, _, _)
positional_rows(b, color, pst, r) ==
    IF r >= b.size THEN 0
    ELSE positional_row(b, color, pst, r, 0)
         + positional_rows(b, color, pst, r + 1)

\* corners owned by color minus corners owned by the opponent
corner_count(b, color) ==
    LET corners == {x \in Cells(b.size) : is_corner(x[1], x[2], b.size)}
    IN  Cardinality({x \in corners : at(b.grid, x[1], x[2]) = color})
        - Cardinality({x \in corners :
                          at(b.grid, x[1], x[2]) \notin {EMPTY, color}})

evaluate(b, color) ==
    LET b_count == score(b)[1]
        w_count == score(b)[2]
        total_pieces == b_count + w_count
        max_pieces == b.size * b.size
        material == IF color = BLACK THEN b_count - w_count
                    ELSE w_count - b_count
        my_moves == Len(legal_moves(b, color))
        opp_moves == Len(legal_moves(b, OPP(color)))
        mobility == my_moves - opp_moves
        pst == get_pst(b.size)
        positional == positional_rows(b, color, pst, 0)
        corners == corner_count(b, color)
        frontier_penalty == count_frontier_discs(b, color)
    IN  IF 4 * total_pieces < max_pieces          \* game_phase < 0.25
        THEN positional * 4 + mobility * 15 + corners * 100
             - frontier_penalty * 2
        ELSE IF 4 * total_pieces < 3 * max_pieces \* game_phase < 0.75
        THEN positional * 3 + mobility * 8 + corners * 150 + material * 5
             - frontier_penalty
        ELSE material * 100 + corners * 50 + positional

-----------------------------------------------------------------------------
(* AI: move ordering *)

is_dangerous_square(r, c, n, b) ==
    \E corner \in {<<0, 0>>, <<0, n - 1>>, <<n - 1, 0>>, <<n - 1, n - 1>>} :
        /\ at(b.grid, corner[1], corner[2]) = EMPTY
        /\ r - corner[1] \in {-1, 0, 1}
        /\ c - corner[2] \in {-1, 0, 1}
        /\ (r # corner[1] \/ c # corner[2])

quick_move_eval(b, move, color) ==
    LET pst == get_pst(b.size)
        r == move.row
        c == move.col
    IN  pst_value(pst, r, c) + Len(move.flips) * 10
        + (IF is_corner(r, c, b.size) THEN 2000
           ELSE IF is_dangerous_square(r, c, b.size, b) THEN -500
           ELSE 0)

\* where list.sort(key=..., reverse=True) puts x among the already sorted
\* pairs: behind every pair whose key is not smaller (the sort is stable)
RECURSIVE insert_sorted(_, _)
insert_sorted(sorted, x) ==
    IF sorted = <<>> THEN <<x>>
    ELSE IF sorted[1][1] >= x[1]
         THEN <<sorted[1]>> \o insert_sorted(Tail(sorted), x)
         ELSE <<x>> \o sorted

RECURSIVE sort_reverse(_, _)
sort_reverse(pairs, done) ==
    IF pairs = <<>> THEN done
    ELSE sort_reverse(Tail(pairs), insert_sorted(done, pairs[1]))

\* the moves ordered by quick_move_eval, best first
order_moves(b, moves, color) ==
    LET scored_moves == [i \in DOMAIN moves |->
                            <<quick_move_eval(b, moves[i], color), moves[i]>>]
        sorted == sort_reverse(scored_moves, <<>>)
    IN  [i \in DOMAIN sorted |-> sorted[i][2]]

-----------------------------------------------------------------------------
(* AI.search.  The engine's own state (transposition table, node counter)  *)
(* is threaded through the recursion: every call takes it as `ai` and      *)
(* gives back the value returned together with the state it leaves.        *)

\* str(board.serialize()), the transposition table's key
board_key(b) == serialize(b)

\* self.transposition_table[key] = entry
table_put(tt, key, entry) ==
    [k \in DOMAIN tt \cup {key} |-> IF k = key THEN entry ELSE tt[k]]

\* the copy a move is tried on
try_move(b, move, color) ==
    make_move([deserialize(serialize(b)) EXCEPT !.to_move = color], move)

\* what a call gives back: the value returned and the engine state it leaves
result(v, tt, n) == [v |-> v, tt |-> tt, n |-> n]

\* -self.search(...)
\* the result of the other side's search, taken over as it is
unnegated(r) == result(r.v, r.tt, r.n)

negated(r) == result(0 - r.v, r.tt, r.n)

\* self.transposition_table[board_key] = (depth, best_value); return best_value.
\* The entry's third component is not in the program: it records the color
\* of the call that stores the entry, and nothing reads it.
cached(key, depth, color, r) ==
    result(r.v, table_put(r.tt, key, <<depth, r.v, color>>), r.n)

\* the value of a board on which neither side can move
final_value(b, color) ==
    IF color = BLACK
    THEN IF score(b)[1] > score(b)[2] THEN 100000
         ELSE IF score(b)[2] > score(b)[1] THEN -100000 ELSE 0
    ELSE IF score(b)[2] > score(b)[1] THEN 100000
         ELSE IF score(b)[1] > score(b)[2] THEN -100000 ELSE 0

RECURSIVE search(_, _, _, _, _, _)
RECURSIVE search_node(_, _, _, _, _, _, _, _)
RECURSIVE search_moves(_, _, _, _, _, _, _, _, _)
RECURSIVE search_step(_, _, _, _, _, _, _, _, _)

\* the body of `for move in moves` of search once the move's subtree, r, has
\* been searched: update best_value and alpha, then break or go on
search_step(r, b, moves, i, depth, alpha, beta, color, best_value) ==
    IF max(alpha, 0 - r.v) >= beta
    THEN result(max(best_value, 0 - r.v), r.tt, r.n)
    ELSE search_moves([tt |-> r.tt, n |-> r.n], b, moves, i + 1, depth,
                      max(alpha, 0 - r.v), beta, color,
                      max(best_value, 0 - r.v))

\* the loop `for move in moves` of search, from the i-th move on
search_moves(ai, b, moves, i, depth, alpha, beta, color, best_value) ==
    IF i > Len(moves) THEN result(best_value, ai.tt, ai.n)
    ELSE search_step(search(ai, try_move(b, moves[i], color),
                            depth - 1, 0 - beta, 0 - alpha, OPP(color)),
                     b, moves, i, depth, alpha, beta, color, best_value)

\* search from the table lookup on; ai has counted the node, key is
\* board_key and moves is board.legal_moves(color)
search_node(ai, b, depth, alpha, beta, color, key, moves) ==
    IF key \in DOMAIN ai.tt /\ ai.tt[key][1] >= depth
    THEN result(ai.tt[key][2], ai.tt, ai.n)
    ELSE IF moves = <<>>
    THEN IF legal_moves(b, OPP(color)) = <<>>
         THEN result(final_value(b, color), ai.tt, ai.n)
         ELSE negated(search(ai, b, depth - 1, 0 - beta, 0 - alpha,
                             OPP(color)))
    ELSE cached(key, depth, color,
                search_moves(ai, b,
                             IF depth > 2 THEN order_moves(b, moves, color)
                             ELSE moves,
                             1, depth, alpha, beta, color, 0 - Inf))

search(ai, b, depth, alpha, beta, color) ==
    IF depth <= 0 \/ game_over(b)
    THEN result(evaluate(b, color), ai.tt, ai.n + 1)
    ELSE search_node([tt |-> ai.tt, n |-> ai.n + 1], b, depth, alpha, beta,
                     color, board_key(b), legal_moves(b, color))

-----------------------------------------------------------------------------
(* AI.choose *)

\* the table size above which choose empties the table: 10000 in the source,
\* scaled down to a size the searches of a 4x4 board exceed
CacheLimit == 20

\* the table choose was given, kept whatever its size
table_kept(tt) == tt

\* `if len(self.transposition_table) > 10000: self.transposition_table.clear()`
table_at_start(tt) == IF Cardinality(DOMAIN tt) > CacheLimit THEN <<>> ELSE tt

\* the depth with neither the cap at 8 nor the floor at 3
adaptive_depth_unclamped(b, md, move_count) ==
    IF 5 * (score(b)[1] + score(b)[2]) > 4 * (b.size * b.size)
       \/ move_count <= 4
    THEN md + 2
    ELSE IF move_count > 15 THEN md - 1
    ELSE md

\* the depth choose searches to
adaptive_depth(b, md, move_count) ==
    IF 5 * (score(b)[1] + score(b)[2]) > 4 * (b.size * b.size)
       \/ move_count <= 4                         \* game_phase > 0.8
    THEN min(md + 2, 8)
    ELSE IF move_count > 15 THEN max(md - 1, 3)
    ELSE md

RECURSIVE choose_moves(_, _, _, _, _, _, _, _, _)
RECURSIVE choose_step(_, _, _, _, _, _, _, _, _)

\* the body of `for _, move in scored_moves` of choose once the move's
\* subtree, r, has been searched
choose_step(r, b, moves, i, depth, alpha, color, best_score, best_moves) ==
    IF 0 - r.v > best_score
    THEN choose_moves([tt |-> r.tt, n |-> r.n], b, moves, i + 1, depth,
                      max(alpha, 0 - r.v), color, 0 - r.v, <<moves[i]>>)
    ELSE choose_moves([tt |-> r.tt, n |-> r.n], b, moves, i + 1, depth,
                      alpha, color, best_score,
                      IF 0 - r.v = best_score
                      THEN Append(best_moves, moves[i]) ELSE best_moves)

\* the loop `for _, move in scored_moves` of choose, from the i-th move on
choose_moves(ai, b, moves, i, depth, alpha, color, best_score, best_moves) ==
    IF i > Len(moves)
    THEN [best_moves |-> best_moves, tt |-> ai.tt, n |-> ai.n]
    ELSE choose_step(search(ai, try_move(b, moves[i], color),
                            depth - 1, 0 - Inf, 0 - alpha, OPP(color)),
                     b, moves, i, depth, alpha, color, best_score, best_moves)

\* `best_moves if best_moves else moves[0]`: what rng.choice draws from
picked(moves, r) ==
    [picks |-> IF r.best_moves # <<>> THEN r.best_moves ELSE <<moves[1]>>,
     tt |-> r.tt, n |-> r.n]

\* choose once moves, the moves it enumerates, is known
choose_from(md, tt, n, b, color, moves) ==
    IF moves = <<>>
    THEN [picks |-> <<>>, tt |-> tt, n |-> n]
    ELSE picked(moves,
                choose_moves([tt |-> table_at_start(tt), n |-> 0],
                             b, order_moves(b, moves, color), 1,
                             adaptive_depth(b, md, Len(moves)),
                             0 - Inf, color, 0 - Inf, <<>>))

\* choose that enumerates board.legal_moves(), the moves of the side to move,
\* whatever color it is asked for
choose_tomove(md, tt, n, b, color) ==
    choose_from(md, tt, n, b, color, legal_moves(b, None))

\* choose(board, color) on an engine with depth md, table tt and counter n:
\* the moves rng.choice may return (empty when choose returns None) and the
\* table and counter the call leaves
choose(md, tt, n, b, color) ==
    choose_from(md, tt, n, b, color, legal_moves(b, color))

-----------------------------------------------------------------------------
(* The engine in a session: the AI's turns, and choose asked for a move of  *)
(* either color, on a 4x4 board                                             *)

\* highest AI level (Settings.ai_depth) explored
MaxLevel == 2

\* AI turns explored in a session
MaxTurns == 1

\* the saved game, saved one move later
SavedLater == serialize(play(deserialize(SavedGame), 1, 0))

InitEngine ==
    /\ \/ InitBoard(NewBoard(4), "new")
       \/ \E k \in DOMAIN SavedClicks :
            InitBoard(deserialize(SavedAfter(k)), "load")
       \/ InitBoard(deserialize(SavedLater), "load")
    /\ max_depth \in 1 .. MaxLevel
    /\ transposition_table = <<>>
    /\ nodes_searched = 0

\* what `return self.rng.choice(best_moves) if best_moves else moves[0]`, or
\* `return None`, can give
Returned(picks) == IF picks = <<>> THEN {NoMove} ELSE Range(picks)

\* ai.choose(board, color) gave r
ChooseGave(r, color) ==
    /\ ret' \in Returned(r.picks)
    /\ transposition_table' = r.tt
    /\ nodes_searched' = r.n
    /\ arg' = color

\* ai.choose(board, color)
Choose ==
    /\ op # "choose"
    /\ \E color \in {BLACK, WHITE} :
          ChooseGave(choose(max_depth, transposition_table, nodes_searched,
                            board, color), color)
    /\ op' = "choose"
    /\ prev' = board
    /\ UNCHANGED <<sessionVars, game>>
    /\ UNCHANGED boardVars
    /\ UNCHANGED max_depth

\* Game.maybe_pass
maybe_pass(b) ==
    IF legal_moves(b, b.to_move) = <<>> THEN pass_turn(b) ELSE b

\* ai_turn_if_needed from the result r of choose on: play the move or pass,
\* then maybe_pass
AITurnGave(r) ==
    /\ \E mv \in Returned(r.picks) :
          /\ ret' = mv
          /\ SetBoard(maybe_pass(IF mv # NoMove
                                 THEN play(board, mv.row, mv.col)
                                 ELSE pass_turn(board)))
    /\ transposition_table' = r.tt
    /\ nodes_searched' = r.n

\* Game.ai_turn_if_needed, called by Game.run while the game is not over
AITurn ==
    /\ Len(history) < MaxTurns
    /\ ~game_over(board)
    /\ AITurnGave(choose(max_depth, transposition_table, nodes_searched,
                         board, to_move))
    /\ op' = "ai_turn"
    /\ arg' = to_move
    /\ prev' = board
    /\ UNCHANGED <<sessionVars, game>>
    /\ UNCHANGED max_depth

NextEngine == Choose \/ AITurn

SpecEngine == InitEngine /\ [][NextEngine]_vars

-----------------------------------------------------------------------------
(* The engine asked directly: ai.search with the full window, as the hint   *)
(* system calls it, and ai.choose, on 4x4 positions of a session            *)

\* moves played on the board before the engine is asked
MaxSetUp == 1

\* the saved game one move further on: WHITE is to move and has none
SavedPass == serialize(play(deserialize(SavedGame), 2, 0))

\* the same game after WHITE's pass and BLACK's last move: neither side can
\* move
SavedOver == serialize(play(pass_turn(deserialize(SavedPass)), 3, 3))

\* the saved game continued with BLACK on (3,2): WHITE has three moves
SavedThree == serialize(play(deserialize(SavedGame), 3, 2))

\* a new game, or one of the saved games loaded
InitSaved ==
    \/ InitBoard(NewBoard(4), "new")
    \/ \E k \in DOMAIN SavedClicks :
         InitBoard(deserialize(SavedAfter(k)), "load")
    \/ \E saved \in {SavedLater, SavedPass, SavedOver, SavedThree} :
         InitBoard(deserialize(saved), "load")

\* the engine of a new session
InitSearch == InitSaved /\ InitAI

\* the engine after the level was set in the menu
InitLevels ==
    /\ InitSaved
    /\ max_depth \in 1 .. MaxLevel
    /\ transposition_table = <<>>
    /\ nodes_searched = 0

\* the engine has been asked (op names the call, arg its arguments, the table
\* it found and whether it is the first call)
Asked == op \in {"search", "choose"}

\* the engine is asked at most twice in a row
MayAsk == IF Asked THEN arg.first ELSE TRUE

\* a move or a pass on the board, before the engine is asked
SetUp ==
    /\ ~Asked
    /\ Len(history) < MaxSetUp
    /\ MakeMove \/ PassTurn

\* ai.search(board, depth, -inf, inf, color) gave r
SearchGave(r, color, depth) ==
    /\ ret' = r.v
    /\ transposition_table' = r.tt
    /\ nodes_searched' = r.n
    /\ arg' = [color |-> color, depth |-> depth,
               table |-> transposition_table, first |-> ~Asked]

\* the depths search is asked for: any up to 3 and then, as the hint system
\* does for the moves of one position, the same depth again
Depths == IF Asked THEN IF op = "search" THEN {arg.depth} ELSE {} ELSE 1 .. 3

\* ai.search(board, depth, float("-inf"), float("inf"), color)
Search ==
    /\ MayAsk
    /\ \E depth \in Depths, color \in {BLACK, WHITE} :
          SearchGave(search([tt |-> transposition_table,
                             n |-> nodes_searched],
                            board, depth, 0 - Inf, Inf, color),
                     color, depth)
    /\ op' = "search"
    /\ prev' = board
    /\ UNCHANGED <<sessionVars, game>>
    /\ UNCHANGED boardVars
    /\ UNCHANGED max_depth

\* ai.choose(board, color) gave r, having searched to depth
AskedChooseGave(r, color, depth) ==
    /\ ret' \in Returned(r.picks)
    /\ transposition_table' = r.tt
    /\ nodes_searched' = r.n
    /\ arg' = [color |-> color, depth |-> depth,
               table |-> transposition_table, first |-> ~Asked]

\* ai.choose(board, color)
AskChoose ==
    /\ MayAsk
    /\ \E color \in {BLACK, WHITE} :
          AskedChooseGave(choose(max_depth, transposition_table,
                                 nodes_searched, board, color),
                          color,
                          adaptive_depth(board, max_depth,
                                         Len(legal_moves(board, color))))
    /\ op' = "choose"
    /\ prev' = board
    /\ UNCHANGED <<sessionVars, game>>
    /\ UNCHANGED boardVars
    /\ UNCHANGED max_depth

\* positions of a session searched directly, once or twice
NextSearch == SetUp \/ Search

SpecSearch == InitSearch /\ [][NextSearch]_vars

\* one engine asked twice about a position, by search or by choose
NextCache == Search \/ AskChoose

SpecCache == InitLevels /\ [][NextCache]_vars

-----------------------------------------------------------------------------
(* The rule of the game, stated on the grid alone *)

Dirs8 == {d \in {-1, 0, 1} \X {-1, 0, 1} : d # <<0, 0>>}

OnBoard(n, r, c) == r >= 0 /\ r <= n - 1 /\ c >= 0 /\ c <= n - 1

\* from (r, c) in direction d: exactly j opponent discs, then a disc of color
Bracketed(g, n, r, c, d, j, color) ==
    /\ \A k \in 1 .. j :
          /\ OnBoard(n, r + k * d[1], c + k * d[2])
          /\ at(g, r + k * d[1], c + k * d[2]) = 3 - color
    /\ OnBoard(n, r + (j + 1) * d[1], c + (j + 1) * d[2])
    /\ at(g, r + (j + 1) * d[1], c + (j + 1) * d[2]) = color

\* the discs a disc of color placed on (r, c) captures
Captured(g, n, r, c, color) ==
    UNION { {<<r + k * d[1], c + k * d[2]>> : k \in 1 .. j} :
            <<d, j>> \in {x \in Dirs8 \X (1 .. n) :
                            Bracketed(g, n, r, c, x[1], x[2], color)} }

LegalCell(g, n, r, c, color) ==
    /\ at(g, r, c) = EMPTY
    /\ \E d \in Dirs8 :
          /\ OnBoard(n, r + d[1], c + d[2])
          /\ at(g, r + d[1], c + d[2]) = 3 - color
          /\ \E j \in 1 .. n : Bracketed(g, n, r, c, d, j, color)

\* moves is the rule's answer for color on grid g: one move per legal cell
\* and no other, each with the captured discs as flips, in row-major order
IsMoveList(moves, g, n, color) ==
    /\ \A i \in DOMAIN moves :
          /\ OnBoard(n, moves[i].row, moves[i].col)
          /\ LegalCell(g, n, moves[i].row, moves[i].col, color)
          /\ Range(moves[i].flips)
                = Captured(g, n, moves[i].row, moves[i].col, color)
          /\ Len(moves[i].flips) = Cardinality(Range(moves[i].flips))
    /\ \A x \in Cells(n) :
          LegalCell(g, n, x[1], x[2], color)
             => \E i \in DOMAIN moves : <<moves[i].row, moves[i].col>> = x
    /\ \A i, j \in DOMAIN moves :
          i < j => moves[i].row * n + moves[i].col
                      < moves[j].row * n + moves[j].col

\* C1: legal_moves(color) returns one Move for each empty cell that brackets
\* a run of opponent discs in some direction and for no other cell, with the
\* union of those runs as flips, in row-major order without duplicates; with
\* the color omitted it answers for the side to move.
C1_LegalMovesIsTheRule ==
    op = "legal_moves" =>
        IsMoveList(ret, grid, size, IF arg = None THEN to_move ELSE arg)

\* a query without a color, answered with a move that captures along two
\* different directions
C1_Witness ==
    /\ op = "legal_moves"
    /\ arg = None
    /\ \E i \in DOMAIN ret :
          LET mv == ret[i]
              dirOf(f) == <<IF f[1] > mv.row THEN 1
                            ELSE IF f[1] < mv.row THEN -1 ELSE 0,
                            IF f[2] > mv.col THEN 1
                            ELSE IF f[2] < mv.col THEN -1 ELSE 0>>
          IN  \E f1, f2 \in Range(mv.flips) : dirOf(f1) # dirOf(f2)

-----------------------------------------------------------------------------
(* Effects of the mutators *)

\* number of cells of grid g holding v
Count(g, v) ==
    Cardinality({x \in Cells(Len(g)) : at(g, x[1], x[2]) = v})

Last(s) == s[Len(s)]

\* C2: a legal move with k flips for side s sets the target cell and the k
\* flip cells to s and no other cell, so s gains k+1 discs, the opponent
\* loses k and the total grows by 1; one (s, row, col) log entry and one
\* snapshot of the pre-move grid and side are added; the opponent is to move.
C2_MakeMoveEffect ==
    op = "make_move" =>
        LET s == prev.to_move
            k == Len(arg.flips)
        IN  /\ \A x \in Cells(size) :
                  at(grid, x[1], x[2]) =
                      IF x = <<arg.row, arg.col>> \/ x \in Range(arg.flips)
                      THEN s ELSE at(prev.grid, x[1], x[2])
            /\ Count(grid, s) = Count(prev.grid, s) + k + 1
            /\ Count(grid, 3 - s) = Count(prev.grid, 3 - s) - k
            /\ Count(grid, EMPTY) = Count(prev.grid, EMPTY) - 1
            /\ move_list = prev.move_list \o << <<s, arg.row, arg.col>> >>
            /\ history = prev.history \o << <<prev.grid, s>> >>
            /\ to_move = 3 - s
            /\ size = prev.size

\* a move by White that captured two or more discs
C2_Witness ==
    /\ op = "make_move"
    /\ prev.to_move = WHITE
    /\ Len(arg.flips) >= 2

\* C3: in every state reached by moves, passes, undo and redo, game_over()
\* is true exactly when neither Black nor White has a legal cell, whichever
\* side is to move.
C3_GameOverIffNoMoves ==
    game_over(board) <=>
        \A color \in {BLACK, WHITE} : \A x \in Cells(size) :
            ~LegalCell(grid, size, x[1], x[2], color)

\* the game has ended with empty cells left on the board
C3_Witness ==
    /\ game_over(board)
    /\ op = "make_move"
    /\ Count(grid, EMPTY) > 0

\* C4: make_move followed immediately by undo returns True and restores the
\* grid, the side to move and the move log that held before the move.
C4_MoveThenUndoRestores ==
    [][(op = "make_move" /\ op' = "undo") =>
          /\ ret' = TRUE
          /\ grid' = prev.grid
          /\ to_move' = prev.to_move
          /\ move_list' = prev.move_list]_vars

\* an undo that took back a move made on a board whose log was not empty
C4_Witness ==
    /\ op = "undo"
    /\ ret = TRUE
    /\ Last(prev.move_list)[2] >= 0
    /\ Len(prev.move_list) >= 2
    /\ Count(prev.grid, EMPTY) < Count(grid, EMPTY)

\* C5: deserialize(serialize(board)) has the same size, grid, to_move and
\* move_list and an empty history and redo stack, so undo() and redo() on it
\* return False, whatever history the board carried.
C5_SerializeRoundTrip ==
    op = "deserialize" =>
        /\ arg = [size |-> size, grid |-> grid, to_move |-> to_move,
                  move_list |-> move_list]
        /\ ret.size = size
        /\ ret.grid = grid
        /\ ret.to_move = to_move
        /\ ret.move_list = move_list
        /\ ret.history = <<>>
        /\ ret.redo_stack = <<>>
        /\ undo(ret) = [b |-> ret, ret |-> FALSE]
        /\ redo(ret) = [b |-> ret, ret |-> FALSE]

\* a copy taken of a board that has both something to undo and to redo, with
\* White to move
C5_Witness ==
    /\ op = "deserialize"
    /\ history # <<>>
    /\ redo_stack # <<>>
    /\ to_move = WHITE
    /\ move_list # <<>>

\* C6: on a new N x N board with m = N/2 (N = 4 and N = 8), White holds
\* (m-1,m-1) and (m,m), Black holds (m-1,m) and (m,m-1), Black is to move and
\* legal_moves(Black) is exactly the cells (m-2,m-1), (m-1,m-2), (m,m+1),
\* (m+1,m), each flipping one disc: {(2,3),(3,2),(4,5),(5,4)} on 8x8 and
\* {(0,1),(1,0),(2,3),(3,2)} on 4x4.
C6_OpeningPosition ==
    (op = "new" /\ size \in {4, 8}) =>
        LET m == size \div 2
            moves == legal_moves(board, BLACK)
            cells == {<<moves[i].row, moves[i].col>> : i \in DOMAIN moves}
        IN  /\ \A x \in Cells(size) :
                  at(grid, x[1], x[2]) =
                      IF x \in {<<m - 1, m - 1>>, <<m, m>>} THEN WHITE
                      ELSE IF x \in {<<m - 1, m>>, <<m, m - 1>>} THEN BLACK
                      ELSE EMPTY
            /\ to_move = BLACK
            /\ cells = {<<m - 2, m - 1>>, <<m - 1, m - 2>>,
                        <<m, m + 1>>, <<m + 1, m>>}
            /\ size = 8 => cells = {<<2, 3>>, <<3, 2>>, <<4, 5>>, <<5, 4>>}
            /\ size = 4 => cells = {<<0, 1>>, <<1, 0>>, <<2, 3>>, <<3, 2>>}
            /\ Len(moves) = 4
            /\ \A i \in DOMAIN moves : Len(moves[i].flips) = 1

\* a new 8x8 board
C6_Witness ==
    /\ op = "new"
    /\ size = 8
    /\ Len(legal_moves(board, BLACK)) = 4

\* C7: pass_turn changes no grid cell, appends one (side, -1, -1) log entry,
\* pushes one history snapshot and switches the side to move; an undo right
\* after it makes the passing side the side to move again and removes that
\* log entry.
C7_PassTurnEffect ==
    [][/\ op' = "pass_turn" =>
            /\ grid' = grid
            /\ move_list' = move_list \o << <<to_move, -1, -1>> >>
            /\ history' = history \o << <<grid, to_move>> >>
            /\ to_move' = 3 - to_move
       /\ (op = "pass_turn" /\ op' = "undo") =>
            /\ ret' = TRUE
            /\ to_move' = prev.to_move
            /\ grid' = prev.grid
            /\ move_list' = prev.move_list]_vars

\* a pass that has been taken back
C7_Witness ==
    /\ op = "undo"
    /\ ret = TRUE
    /\ prev.move_list # <<>>
    /\ Last(prev.move_list) = <<to_move, -1, -1>>
    /\ Len(move_list) = Len(prev.move_list) - 1

\* C8: undo() with an empty history and redo() with an empty redo stack
\* return False and leave grid, to_move, move_list, history and redo stack
\* as they were; with a non-empty stack the call returns True.
C8_EmptyStackRefused ==
    /\ op = "undo" =>
          /\ ret = (prev.history # <<>>)
          /\ ret = FALSE => board = prev
    /\ op = "redo" =>
          /\ ret = (prev.redo_stack # <<>>)
          /\ ret = FALSE => board = prev

\* a redo refused on a board that has moves to undo
C8_Witness ==
    /\ op = "redo"
    /\ ret = FALSE
    /\ history # <<>>

\* C9: right after a make_move or a pass_turn the redo stack is empty, so a
\* redo() issued next returns False and changes nothing.
C9_MoveClearsRedo ==
    [][/\ op' \in {"make_move", "pass_turn"} => redo_stack' = <<>>
       /\ (op \in {"make_move", "pass_turn"} /\ op' = "redo") =>
            /\ ret' = FALSE
            /\ boardVars' = boardVars]_vars

\* a move made on a board that still had a position to redo
C9_Witness ==
    /\ op = "make_move"
    /\ prev.redo_stack # <<>>
    /\ redo_stack = <<>>

-----------------------------------------------------------------------------
(* The engine's choice *)

\* C10: choose(board, color) returns None exactly when legal_moves(color) is
\* empty; otherwise it returns one of the Moves of legal_moves(color) on that
\* board, and the only one when there is exactly one, at every level and with
\* whatever the table holds from earlier calls.
C10_ChooseReturnsLegalMove ==
    op \in {"choose", "ai_turn"} =>
        LET moves == legal_moves(prev, arg)
        IN  /\ ret = NoMove <=> moves = <<>>
            /\ ret # NoMove => \E i \in DOMAIN moves : ret = moves[i]
            /\ Len(moves) = 1 => ret = moves[1]

\* choose asked for the side that is not to move, with positions in the table
\* from earlier turns, on a board where that side has exactly one move
C10_Witness ==
    /\ op = "choose"
    /\ arg # to_move
    /\ Len(legal_moves(board, arg)) = 1
    /\ DOMAIN prev.history # {}
    /\ ret # NoMove

-----------------------------------------------------------------------------
(* The evaluation and the depth choose searches to, along two recorded      *)
(* games: one on the 8x8 board, one on the 4x4 board                        *)

\* the cells clicked in a game on the 8x8 board, up to the 53rd disc
RecordedClicks8 ==
    << <<5, 4>>, <<5, 3>>, <<2, 2>>, <<3, 5>>, <<6, 3>>, <<4, 2>>, <<3, 6>>,
       <<2, 6>>, <<3, 2>>, <<4, 6>>, <<4, 1>>, <<6, 2>>, <<4, 5>>, <<4, 0>>,
       <<5, 0>>, <<7, 3>>, <<3, 0>>, <<6, 5>>, <<5, 5>>, <<2, 3>>, <<3, 7>>,
       <<1, 2>>, <<6, 4>>, <<2, 4>>, <<5, 6>>, <<7, 5>>, <<3, 1>>, <<2, 1>>,
       <<1, 4>>, <<4, 7>>, <<5, 1>>, <<2, 5>>, <<5, 7>>, <<6, 6>>, <<5, 2>>,
       <<6, 0>>, <<1, 3>>, <<0, 3>>, <<0, 2>>, <<0, 1>>, <<7, 2>>, <<1, 1>>,
       <<6, 7>>, <<7, 7>>, <<1, 7>>, <<2, 0>>, <<2, 7>>, <<0, 7>>, <<1, 5>> >>

\* the cells clicked in a game on the 4x4 board, up to the 15th disc
RecordedClicks4 ==
    << <<3, 2>>, <<3, 1>>, <<0, 0>>, <<1, 3>>, <<3, 3>>, <<2, 3>>, <<1, 0>>,
       <<0, 2>>, <<3, 0>>, <<2, 0>>, <<0, 1>> >>

RecordedClicks(n) == IF n = 4 THEN RecordedClicks4 ELSE RecordedClicks8

\* the levels of the difficulty menu
Levels == 1 .. 6

InitEval ==
    /\ \E n \in Sizes : InitBoard(NewBoard(n), "new")
    /\ max_depth \in Levels
    /\ transposition_table = <<>>
    /\ nodes_searched = 0

\* the moves made so far, passes not counted
MovesMade(b) ==
    Cardinality({i \in DOMAIN b.move_list : b.move_list[i][2] >= 0})

\* Game.run on a click once Game.play has answered with board played:
\* `if self.play(*rc): self.maybe_pass()`
after_play(b, played) == IF played = b THEN b ELSE maybe_pass(played)

\* a click on cell (r, c)
click(b, r, c) == after_play(b, play(b, r, c))

\* the next click of the recorded game
PlayOn ==
    /\ MovesMade(board) < Len(RecordedClicks(size))
    /\ SetBoard(click(board,
                      RecordedClicks(size)[MovesMade(board) + 1][1],
                      RecordedClicks(size)[MovesMade(board) + 1][2]))
    /\ op' = "click"
    /\ arg' = RecordedClicks(size)[MovesMade(board) + 1]
    /\ ret' = None
    /\ prev' = board
    /\ UNCHANGED <<sessionVars, game>>
    /\ UNCHANGED aiVars

\* ai.evaluate(board, color)
Evaluate ==
    /\ \E color \in {BLACK, WHITE} :
          /\ ret' = evaluate(board, color)
          /\ arg' = color
    /\ op' = "evaluate"
    /\ prev' = board
    /\ UNCHANGED <<sessionVars, game>>
    /\ UNCHANGED boardVars
    /\ UNCHANGED aiVars

\* the depth ai.choose(board, color) computes before it searches
AdaptiveDepth ==
    /\ \E color \in {BLACK, WHITE} :
          /\ legal_moves(board, color) # <<>>
          /\ ret' = adaptive_depth(board, max_depth,
                                   Len(legal_moves(board, color)))
          /\ arg' = color
    /\ op' = "adaptive_depth"
    /\ prev' = board
    /\ UNCHANGED <<sessionVars, game>>
    /\ UNCHANGED boardVars
    /\ UNCHANGED aiVars

NextEval == PlayOn \/ Evaluate \/ AdaptiveDepth

SpecEval == InitEval /\ [][NextEval]_vars

-----------------------------------------------------------------------------
(* Board.make_move called with a Move the caller built itself *)

\* the flip lists of the Moves given: none, or one cell
GivenFlips == {<<>>} \cup {<<x>> : x \in Cells(4)}

InitGiven ==
    /\ \/ InitBoard(NewBoard(4), "new")
       \/ \E k \in DOMAIN SavedClicks :
            InitBoard(deserialize(SavedAfter(k)), "load")
    /\ InitAI

\* board.make_move(Move(r, c, flips)) with any cell of the board and any of
\* these flip lists
MakeMoveGiven ==
    /\ op # "make_move_given"
    /\ Len(history) < MaxPly
    /\ \E x \in Cells(size), flips \in GivenFlips :
          /\ SetBoard(make_move(board,
                                [row |-> x[1], col |-> x[2], flips |-> flips]))
          /\ arg' = [row |-> x[1], col |-> x[2], flips |-> flips]
    /\ op' = "make_move_given"
    /\ ret' = None
    /\ prev' = board
    /\ UNCHANGED <<sessionVars, game>>
    /\ UNCHANGED aiVars

\* the session's own moves and passes, then one Move given by the caller
NextGiven ==
    \/ op # "make_move_given" /\ MakeMove
    \/ op # "make_move_given" /\ PassTurn
    \/ MakeMoveGiven

SpecGiven == InitGiven /\ [][NextGiven]_vars

-----------------------------------------------------------------------------
(* The engine on Board objects.  A heap is a sequence of objects, an object *)
(* is known by its address (its index), and a Board object holds the        *)
(* addresses of its grid list, history, redo stack and move list; the grid  *)
(* list holds the addresses of its rows.  Lookahead works on objects        *)
(* Board.deserialize creates; what it leaves in the object it was given is  *)
(* read back from the heap.                                                 *)

\* the heap that holds board b and nothing else; b is its last object
placed(b) ==
    b.grid \o << [i \in DOMAIN b.grid |-> i],
                 b.history, b.redo_stack, b.move_list,
                 [size |-> b.size, grid |-> Len(b.grid) + 1,
                  to_move |-> b.to_move, history |-> Len(b.grid) + 2,
                  redo_stack |-> Len(b.grid) + 3,
                  move_list |-> Len(b.grid) + 4] >>

\* the board the object at address a holds
held(heap, a) ==
    [size |-> heap[a].size,
     grid |-> [i \in DOMAIN heap[heap[a].grid] |-> heap[heap[heap[a].grid][i]]],
     to_move |-> heap[a].to_move,
     history |-> heap[heap[a].history],
     redo_stack |-> heap[heap[a].redo_stack],
     move_list |-> heap[heap[a].move_list]]

\* Board.serialize: the dict holds the board's own grid and move list
serialize_ref(heap, a) ==
    [size |-> heap[a].size, grid |-> heap[a].grid,
     to_move |-> heap[a].to_move, move_list |-> heap[a].move_list]

\* a deserialize that keeps the dict's grid and move list as they are:
\* `b.grid = obj["grid"]`, `b.move_list = obj["move_list"]`
deserialize_shared(heap, obj) ==
    heap \o << <<>>, <<>>,
               [size |-> obj.size, grid |-> obj.grid,
                to_move |-> obj.to_move, history |-> Len(heap) + 1,
                redo_stack |-> Len(heap) + 2,
                move_list |-> obj.move_list] >>

\* Board.deserialize: a new Board with a copy of every row, a new grid list,
\* a new move list and its own empty history and redo stack; the new Board
\* is the last object of the heap returned
deserialize_ref(heap, obj) ==
    heap \o [i \in DOMAIN heap[obj.grid] |-> heap[heap[obj.grid][i]]]
         \o << [i \in DOMAIN heap[obj.grid] |-> Len(heap) + i],
               <<>>, <<>>, heap[obj.move_list],
               [size |-> obj.size,
                grid |-> Len(heap) + Len(heap[obj.grid]) + 1,
                to_move |-> obj.to_move,
                history |-> Len(heap) + Len(heap[obj.grid]) + 2,
                redo_stack |-> Len(heap) + Len(heap[obj.grid]) + 3,
                move_list |-> Len(heap) + Len(heap[obj.grid]) + 4] >>

\* `self.grid[rr][cc] = color` for the cells from the i-th on, in the rows
\* at the addresses rows
RECURSIVE set_cells(_, _, _, _, _)
set_cells(heap, rows, cells, i, color) ==
    IF i > Len(cells) THEN heap
    ELSE set_cells([heap EXCEPT ![rows[cells[i][1] + 1]][cells[i][2] + 1]
                                    = color],
                   rows, cells, i + 1, color)

\* Board.make_move on the object at address a
make_move_ref(heap, a, mv) ==
    set_cells([heap EXCEPT
                  ![heap[a].history] =
                      Append(@, <<copy_grid(held(heap, a)), heap[a].to_move>>),
                  ![heap[a].redo_stack] = <<>>,
                  ![heap[a].move_list] =
                      Append(@, <<heap[a].to_move, mv.row, mv.col>>),
                  ![a].to_move = OPP(heap[a].to_move)],
              heap[heap[a].grid], <<<<mv.row, mv.col>>>> \o mv.flips, 1,
              heap[a].to_move)

\* `board_copy.to_move = color; board_copy.make_move(move)` on the last
\* object of the heap
moved(heap, mv, color) ==
    make_move_ref([heap EXCEPT ![Len(heap)].to_move = color], Len(heap), mv)

\* the copy a move is tried on: the last object of the heap returned
try_move_ref(heap, a, mv, color) ==
    moved(deserialize_ref(heap, serialize_ref(heap, a)), mv, color)

\* what a search on objects returns: the value, and the table, the counter
\* and the heap it leaves
result_ref(v, tt, n, heap) == [v |-> v, tt |-> tt, n |-> n, heap |-> heap]

RECURSIVE search_ref(_, _, _, _, _, _)
RECURSIVE search_held(_, _, _, _, _, _, _)
RECURSIVE search_node_ref(_, _, _, _, _, _, _, _, _)
RECURSIVE search_moves_ref(_, _, _, _, _, _, _, _, _, _)
RECURSIVE search_step_ref(_, _, _, _, _, _, _, _, _, _)
RECURSIVE search_copy(_, _, _, _, _, _)

\* result r once the objects from address k on, which nothing refers to any
\* more, are dropped from the heap
freed(r, k) == result_ref(r.v, r.tt, r.n, SubSeq(r.heap, 1, k))

\* search on the board copy that is the last object of heap; the copy and
\* what it holds were created on top of ai.heap and are dropped afterwards
search_copy(heap, ai, depth, alpha, beta, color) ==
    freed(search_ref([tt |-> ai.tt, n |-> ai.n, heap |-> heap], Len(heap),
                     depth, alpha, beta, color),
          Len(ai.heap))

search_step_ref(r, a, b, moves, i, depth, alpha, beta, color, best_value) ==
    IF max(alpha, 0 - r.v) >= beta
    THEN result_ref(max(best_value, 0 - r.v), r.tt, r.n, r.heap)
    ELSE search_moves_ref([tt |-> r.tt, n |-> r.n, heap |-> r.heap],
                          a, b, moves, i + 1, depth,
                          max(alpha, 0 - r.v), beta, color,
                          max(best_value, 0 - r.v))

search_moves_ref(ai, a, b, moves, i, depth, alpha, beta, color, best_value) ==
    IF i > Len(moves) THEN result_ref(best_value, ai.tt, ai.n, ai.heap)
    ELSE search_step_ref(search_copy(try_move_ref(ai.heap, a, moves[i], color),
                                     ai, depth - 1, 0 - beta, 0 - alpha,
                                     OPP(color)),
                         a, b, moves, i, depth, alpha, beta, color,
                         best_value)

\* -self.search(board, ...): the same object, searched for the other side
negated_ref(r) == result_ref(0 - r.v, r.tt, r.n, r.heap)

cached_ref(key, depth, color, r) ==
    result_ref(r.v, table_put(r.tt, key, <<depth, r.v, color>>), r.n, r.heap)

search_node_ref(ai, a, b, depth, alpha, beta, color, key, moves) ==
    IF key \in DOMAIN ai.tt /\ ai.tt[key][1] >= depth
    THEN result_ref(ai.tt[key][2], ai.tt, ai.n, ai.heap)
    ELSE IF moves = <<>>
    THEN IF legal_moves(b, OPP(color)) = <<>>
         THEN result_ref(final_value(b, color), ai.tt, ai.n, ai.heap)
         ELSE negated_ref(search_ref(ai, a, depth - 1, 0 - beta, 0 - alpha,
                                     OPP(color)))
    ELSE cached_ref(key, depth, color,
                    search_moves_ref(ai, a, b,
                                     IF depth > 2
                                     THEN order_moves(b, moves, color)
                                     ELSE moves,
                                     1, depth, alpha, beta, color, 0 - Inf))

\* search on the object at address a, which holds board b
search_held(ai, a, b, depth, alpha, beta, color) ==
    IF depth <= 0 \/ game_over(b)
    THEN result_ref(evaluate(b, color), ai.tt, ai.n + 1, ai.heap)
    ELSE search_node_ref([tt |-> ai.tt, n |-> ai.n + 1, heap |-> ai.heap],
                         a, b, depth, alpha, beta, color,
                         board_key(b), legal_moves(b, color))

\* ai.search(board, depth, alpha, beta, color) with board the object at
\* address a of ai.heap
search_ref(ai, a, depth, alpha, beta, color) ==
    search_held(ai, a, held(ai.heap, a), depth, alpha, beta, color)

RECURSIVE choose_moves_ref(_, _, _, _, _, _, _, _, _, _)
RECURSIVE choose_step_ref(_, _, _, _, _, _, _, _, _, _)

choose_step_ref(r, a, b, moves, i, depth, alpha, color, best_score, best_moves) ==
    IF 0 - r.v > best_score
    THEN choose_moves_ref([tt |-> r.tt, n |-> r.n, heap |-> r.heap],
                          a, b, moves, i + 1, depth,
                          max(alpha, 0 - r.v), color, 0 - r.v, <<moves[i]>>)
    ELSE choose_moves_ref([tt |-> r.tt, n |-> r.n, heap |-> r.heap],
                          a, b, moves, i + 1, depth,
                          alpha, color, best_score,
                          IF 0 - r.v = best_score
                          THEN Append(best_moves, moves[i]) ELSE best_moves)

choose_moves_ref(ai, a, b, moves, i, depth, alpha, color, best_score, best_moves) ==
    IF i > Len(moves)
    THEN [best_moves |-> best_moves, tt |-> ai.tt, n |-> ai.n,
          heap |-> ai.heap]
    ELSE choose_step_ref(search_copy(try_move_ref(ai.heap, a, moves[i], color),
                                     ai, depth - 1, 0 - Inf, 0 - alpha,
                                     OPP(color)),
                         a, b, moves, i, depth, alpha, color, best_score,
                         best_moves)

picked_ref(moves, r) ==
    [picks |-> IF r.best_moves # <<>> THEN r.best_moves ELSE <<moves[1]>>,
     tt |-> r.tt, n |-> r.n, heap |-> r.heap]

\* choose on the object at address a, which holds board b, once moves, the
\* legal moves of color, is known
choose_held(md, ai, a, b, color, moves) ==
    IF moves = <<>>
    THEN [picks |-> <<>>, tt |-> ai.tt, n |-> ai.n, heap |-> ai.heap]
    ELSE picked_ref(moves,
                    choose_moves_ref([tt |-> table_at_start(ai.tt), n |-> 0,
                                      heap |-> ai.heap],
                                     a, b, order_moves(b, moves, color), 1,
                                     adaptive_depth(b, md, Len(moves)),
                                     0 - Inf, color, 0 - Inf, <<>>))

\* ai.choose(board, color) with board the object at address a of ai.heap
choose_ref(md, ai, a, color) ==
    choose_held(md, ai, a, held(ai.heap, a), color,
                legal_moves(held(ai.heap, a), color))

\* the address of b in placed(b)
given(b) == Len(b.grid) + 5

\* the engine has been asked about the session's Board object
AskedOn == op \in {"search_on", "choose_on"}

\* a move or a pass on the board, before the engine is asked
SetUpOn == ~AskedOn /\ SetUp

\* ai.search(self.board, depth, -inf, inf, color) gave r: the session's board
\* is what its object now holds
SearchOnGave(r, color, depth) ==
    /\ ret' = r.v
    /\ transposition_table' = r.tt
    /\ nodes_searched' = r.n
    /\ arg' = [color |-> color, depth |-> depth]
    /\ SetBoard(held(r.heap, given(board)))

\* ai.search(self.board, depth, float("-inf"), float("inf"), color)
SearchOn ==
    /\ ~AskedOn
    /\ \E depth \in 1 .. 3, color \in {BLACK, WHITE} :
          SearchOnGave(search_ref([tt |-> transposition_table,
                                   n |-> nodes_searched,
                                   heap |-> placed(board)],
                                  given(board), depth, 0 - Inf, Inf, color),
                       color, depth)
    /\ op' = "search_on"
    /\ prev' = board
    /\ UNCHANGED <<sessionVars, game>>
    /\ UNCHANGED max_depth

\* ai.choose(self.board, color) gave r
ChooseOnGave(r, color) ==
    /\ ret' \in Returned(r.picks)
    /\ transposition_table' = r.tt
    /\ nodes_searched' = r.n
    /\ arg' = [color |-> color, depth |-> 0]
    /\ SetBoard(held(r.heap, given(board)))

\* ai.choose(self.board, color)
ChooseOn ==
    /\ ~AskedOn
    /\ \E color \in {BLACK, WHITE} :
          ChooseOnGave(choose_ref(max_depth,
                                  [tt |-> transposition_table,
                                   n |-> nodes_searched,
                                   heap |-> placed(board)],
                                  given(board), color),
                       color)
    /\ op' = "choose_on"
    /\ prev' = board
    /\ UNCHANGED <<sessionVars, game>>
    /\ UNCHANGED max_depth

NextObjects == SetUpOn \/ SearchOn \/ ChooseOn

SpecObjects == InitLevels /\ [][NextObjects]_vars

-----------------------------------------------------------------------------
(* Plain negamax: every move searched, no window, no table *)

\* the greatest member of a non-empty set of integers
SetMax(S) == CHOOSE v \in S : \A w \in S : w <= v

RECURSIVE negamax(_, _, _)
RECURSIVE negamax_at(_, _, _, _)

\* the score of b for color, depth plies deep, once the moves of color are
\* known
negamax_at(b, depth, color, moves) ==
    IF moves = <<>>
    THEN IF legal_moves(b, OPP(color)) = <<>>
         THEN final_value(b, color)
         ELSE 0 - negamax(b, depth - 1, OPP(color))
    ELSE SetMax({0 - negamax(try_move(b, moves[i], color), depth - 1,
                             OPP(color)) : i \in DOMAIN moves})

negamax(b, depth, color) ==
    IF depth <= 0 \/ game_over(b)
    THEN evaluate(b, color)
    ELSE negamax_at(b, depth, color, legal_moves(b, color))

\* C12: on a 4x4 board, for either color and any depth up to 3, search asked
\* with the full window on an engine whose table is empty returns the score
\* of plain negamax: pruning and move ordering change the work, never the
\* result.
C12_SearchIsNegamax ==
    (op = "search" /\ arg.table = <<>>)
       => ret = negamax(prev, arg.depth, arg.color)

\* a depth-3 search from an empty table that cut a subtree off (it stored a
\* value that is not the subtree's negamax score)
C12_Witness ==
    /\ op = "search"
    /\ arg.table = <<>>
    /\ arg.depth = 3
    /\ ret = negamax(prev, 3, arg.color)
    /\ \E key \in DOMAIN transposition_table :
          transposition_table[key][2]
             # negamax(deserialize(key), transposition_table[key][1],
                       transposition_table[key][3])

\* C13: search asked about a position in which neither side has a legal move
\* returns exactly 100000 when color has more discs, -100000 when it has
\* fewer and 0 when the counts are equal, whatever the depth.
C13_FinishedGameScore ==
    (/\ op = "search"
     /\ legal_moves(prev, BLACK) = <<>>
     /\ legal_moves(prev, WHITE) = <<>>)
       => ret = IF score(prev)[arg.color] > score(prev)[OPP(arg.color)]
                THEN 100000
                ELSE IF score(prev)[arg.color] < score(prev)[OPP(arg.color)]
                THEN 0 - 100000
                ELSE 0

\* C14: a cached answer that search returns was stored by a call with the
\* same color argument: a score computed for one side is never handed to a
\* call asking for the other, over any sequence of calls on one engine.
C14_CachedAnswerSameColor ==
    (/\ op = "search"
     /\ ~game_over(prev)
     /\ board_key(prev) \in DOMAIN arg.table
     /\ arg.table[board_key(prev)][1] >= arg.depth)
       => arg.table[board_key(prev)][3] = arg.color

\* C20: every entry (d, s) of the transposition table holds, for the
\* position of its key, the exact depth-d negamax score for the color whose
\* search stored it.
C20_StoredScoresExact ==
    \A key \in DOMAIN transposition_table :
       transposition_table[key][2]
          = negamax(deserialize(key), transposition_table[key][1],
                    transposition_table[key][3])

\* the exact score of move mv of color on b when choose searches to depth
MoveScore(b, mv, depth, color) ==
    0 - negamax(try_move(b, mv, color), depth - 1, OPP(color))

\* C19: every move choose may return (every member of the set it draws from)
\* attains the highest exact negamax score among the legal moves of color at
\* the adaptive depth, when the table was empty at the call.
C19_ChosenMoveIsBest ==
    (op = "choose" /\ arg.table = <<>> /\ ret # NoMove)
       => \A mv \in Range(legal_moves(prev, arg.color)) :
             MoveScore(prev, mv, arg.depth, arg.color)
                <= MoveScore(prev, ret, arg.depth, arg.color)

EmptyAround(g, n, x) ==
    {d \in Dirs8 : /\ OnBoard(n, x[1] + d[1], x[2] + d[2])
                   /\ at(g, x[1] + d[1], x[2] + d[2]) = EMPTY}

\* the cells of grid g that hold v
Held(g, n, v) == {x \in Cells(n) : at(g, x[1], x[2]) = v}

\* the cells the rule of the game lets color play on
Playable(g, n, color) ==
    {x \in Cells(n) : LegalCell(g, n, x[1], x[2], color)}

\* the sum, over the table values in V, of the value times the number of
\* cells with that value that color holds less those its opponent holds
RECURSIVE Weighted(_, _, _, _)
Weighted(g, n, color, V) ==
    IF V = {} THEN 0
    ELSE LET v == CHOOSE w \in V : TRUE
             worth == {x \in Cells(n) :
                          pst_value(get_pst(n), x[1], x[2]) = v}
         IN  v * (Cardinality(worth \cap Held(g, n, color))
                  - Cardinality(worth \cap Held(g, n, 3 - color)))
             + Weighted(g, n, color, V \ {v})

\* C17: evaluate(board, color) is positional*4 + mobility*15 + corners*100
\* - frontier*2 when fewer than 25% of the cells are filled, positional*3 +
\* mobility*8 + corners*150 + material*5 - frontier when at least 25% and
\* fewer than 75% are, and material*100 + corners*50 + positional when at
\* least 75% are; material, mobility and corners are own minus opponent's
\* counts, positional is the table sum signed by owner, and frontier counts
\* once each disc of color with at least one empty neighbour.
C17_EvaluateFormula ==
    op = "evaluate" =>
       LET filled == Cardinality(Cells(size) \ Held(grid, size, EMPTY))
           material == Cardinality(Held(grid, size, arg))
                       - Cardinality(Held(grid, size, 3 - arg))
           mobility == Cardinality(Playable(grid, size, arg))
                       - Cardinality(Playable(grid, size, 3 - arg))
           cornerCells == {0, size - 1} \X {0, size - 1}
           corners == Cardinality(cornerCells \cap Held(grid, size, arg))
                      - Cardinality(cornerCells
                                       \cap Held(grid, size, 3 - arg))
           positional ==
               Weighted(grid, size, arg,
                        {pst_value(get_pst(size), x[1], x[2]) :
                            x \in Cells(size)})
           frontier == Cardinality({x \in Held(grid, size, arg) :
                                       EmptyAround(grid, size, x) # {}})
       IN  ret = IF 100 * filled < 25 * (size * size)
                 THEN positional * 4 + mobility * 15 + corners * 100
                      - frontier * 2
                 ELSE IF 100 * filled < 75 * (size * size)
                 THEN positional * 3 + mobility * 8 + corners * 150
                      + material * 5 - frontier
                 ELSE material * 100 + corners * 50 + positional

\* a position fewer than 25% filled was evaluated, to a score other than 0,
\* for a color that has a disc with several empty neighbours
C17_Witness ==
    /\ op = "evaluate"
    /\ 100 * Cardinality(Cells(size) \ Held(grid, size, EMPTY))
          < 25 * (size * size)
    /\ \E x \in Held(grid, size, arg) :
          Cardinality(EmptyAround(grid, size, x)) > 1
    /\ ret # 0

\* C18: make_move called with a move that is not among the legal moves of the
\* side to move (occupied target, empty or wrong flip list) leaves grid,
\* to_move, history, redo stack and move log as they were.
C18_IllegalMoveChangesNothing ==
    (/\ op = "make_move_given"
     /\ arg \notin Range(legal_moves(prev, prev.to_move)))
       => board = prev

\* C11: neither choose nor search changes the Board object it is given:
\* after the call its grid, to_move, history, redo stack and move list are
\* what they were before (lookahead moves are made on copies that share no
\* row and no list with it, and a pass inside search changes no board).
C11_GivenBoardUnchanged ==
    AskedOn => board = prev

\* a depth-3 search of the session's board has made lookahead moves and
\* stored their scores
C11_Witness ==
    /\ op = "search_on"
    /\ arg.depth = 3
    /\ nodes_searched > 10
    /\ transposition_table # <<>>
    /\ board = prev

-----------------------------------------------------------------------------
(* Undo followed by redo *)

\* C21: on a board reached from the opening by make_move and pass_turn
\* (one log entry per snapshot, nothing to redo), undo() followed at once by
\* redo() gives back the grid, the side to move and the move log that held
\* before the undo.
C21_UndoThenRedoRestores ==
    [][(/\ op = "undo" /\ ret = TRUE
        /\ prev.redo_stack = <<>>
        /\ Len(prev.move_list) = Len(prev.history)
        /\ op' = "redo")
       => (/\ grid' = prev.grid
           /\ to_move' = prev.to_move
           /\ move_list' = prev.move_list)]_vars

-----------------------------------------------------------------------------
(* The Iago session: Game.run and the handlers it calls.  The Board is the  *)
(* session's board, the engine its AI; settings says which colors the       *)
(* computer plays, ui holds the move history shown and replayed.            *)

\* most moves played (by click or by the computer) since the game was
\* started or loaded
MaxMoves == 2

\* theme keys of the Themes menu
ThemeKeys == {"midnight"}

\* `current_is_ai` of Game.run and the test of ai_turn_if_needed
current_is_ai(b, st) ==
    \/ b.to_move = BLACK /\ st.ai_black
    \/ b.to_move = WHITE /\ st.ai_white

\* the MoveHistoryEntry Game.play builds for mv before it makes the move
MoveHistoryEntry(b, u, mv) ==
    [move_number |-> Len(u.move_history) + 1, player |-> b.to_move,
     row |-> mv.row, col |-> mv.col, pieces_flipped |-> Len(mv.flips),
     board_state |-> copy_grid(b)]

\* Game.play with the move found in `legal`
play_move(b, u, mv) ==
    [board |-> make_move(b, mv),
     ui |-> [u EXCEPT !.move_history = Append(@, MoveHistoryEntry(b, u, mv))],
     ret |-> TRUE]

\* Game.play(r, c): the board and ui it leaves and what it returns
Game_play(b, u, r, c) ==
    LET legal == legal_moves(b, b.to_move)
        hits == {i \in DOMAIN legal : legal[i].row = r /\ legal[i].col = c}
    IN  IF hits = {} THEN [board |-> b, ui |-> u, ret |-> FALSE]
        ELSE play_move(b, u, legal[CHOOSE i \in hits : TRUE])

\* the click branch of Game.run: `if self.play(*rc): self.maybe_pass()`
clicked(r) ==
    [board |-> IF r.ret THEN maybe_pass(r.board) ELSE r.board,
     ui |-> r.ui, ret |-> r.ret]

\* ai_turn_if_needed that does nothing when choose returns None
ai_turn_nopass(b, u, mv) ==
    IF mv # NoMove
    THEN LET r == Game_play(b, u, mv.row, mv.col)
         IN  [board |-> maybe_pass(r.board), ui |-> r.ui]
    ELSE [board |-> b, ui |-> u]

\* ai_turn_if_needed once choose has returned mv: play it or pass, then
\* maybe_pass
ai_turn(b, u, mv) ==
    LET r == IF mv # NoMove
             THEN Game_play(b, u, mv.row, mv.col)
             ELSE [board |-> pass_turn(b), ui |-> u, ret |-> FALSE]
    IN  [board |-> maybe_pass(r.board), ui |-> r.ui]

\* Game.on_new: a new Board of the same size, the move history cleared
on_new(b, u) ==
    [board |-> NewBoard(b.size), ui |-> [u EXCEPT !.move_history = <<>>]]

\* Game.set_theme(theme_key)
set_theme(b, st, theme_key) ==
    [board |-> redo(b).b, settings |-> [st EXCEPT !.theme = theme_key]]

\* Game(board, settings) as main() or on_load leaves it: the computer
\* players are the settings file's choice, the level is 1; r is the value
\* recorded in ret before any handler has returned
InitGameGave(b, how, r) ==
    /\ size = b.size
    /\ grid = b.grid
    /\ to_move = b.to_move
    /\ history = b.history
    /\ redo_stack = b.redo_stack
    /\ move_list = b.move_list
    /\ max_depth = 1
    /\ transposition_table = <<>>
    /\ nodes_searched = 0
    /\ settings \in {[NewSettings EXCEPT !.ai_black = x[1], !.ai_white = x[2]] :
                        x \in BOOLEAN \X BOOLEAN}
    /\ ui = NewUI
    /\ game = Game_init
    /\ op = how
    /\ arg = None
    /\ ret = r
    /\ prev = b

InitGame(b, how) == InitGameGave(b, how, None)

\* a session started on a new 4x4 board
InitSession == InitGame(NewBoard(4), "new")

\* a session that has just loaded the saved game (on_load clears the move
\* history of the ui)
InitLoaded == InitGame(deserialize(SavedGame), "load")

\* MOUSEBUTTONDOWN on cell x of the board (arg keeps the cell of a click that
\* was played)
Click ==
    /\ ~ui.replay_mode
    /\ ~game_over(board)
    /\ ~current_is_ai(board, settings)
    /\ Len(ui.move_history) < MaxMoves
    /\ \E x \in Cells(size) :
          LET r == clicked(Game_play(board, ui, x[1], x[2]))
          IN  /\ SetBoard(r.board)
              /\ ui' = r.ui
              /\ ret' = r.ret
              /\ arg' = IF r.ret THEN x ELSE None
    /\ op' = "click"
    /\ prev' = board
    /\ UNCHANGED <<aiVars, settings, game>>

\* ai_turn_if_needed after choose gave r
SessionAITurnGave(r) ==
    /\ \E mv \in Returned(r.picks) :
          /\ ret' = mv
          /\ LET t == ai_turn(board, ui, mv)
             IN  SetBoard(t.board) /\ ui' = t.ui
    /\ transposition_table' = r.tt
    /\ nodes_searched' = r.n

\* the AI branch of Game.run is taken: the game is not over, no replay is
\* shown, the side to move is the computer's and the timer has run out
AIBranch ==
    /\ ~game_over(board)
    /\ ~ui.replay_mode
    /\ current_is_ai(board, settings)
    /\ op' = "ai_turn"
    /\ prev' = board

\* that branch: ai_turn_if_needed
RunAITurn ==
    /\ AIBranch
    /\ SessionAITurnGave(choose(max_depth, transposition_table,
                                nodes_searched, board, to_move))
    /\ arg' = to_move
    /\ UNCHANGED <<max_depth, settings, game>>

\* key U: Game.on_undo
OnUndo ==
    /\ Len(redo_stack) < MaxRedo
    /\ LET res == undo(board)
       IN  SetBoard(res.b) /\ ret' = res.ret
    /\ op' = "undo"
    /\ arg' = None
    /\ prev' = board
    /\ UNCHANGED <<aiVars, sessionVars, game>>

\* key R: Game.on_redo
OnRedo ==
    /\ LET res == redo(board)
       IN  SetBoard(res.b) /\ ret' = res.ret
    /\ op' = "redo"
    /\ arg' = None
    /\ prev' = board
    /\ UNCHANGED <<aiVars, sessionVars, game>>

\* key N: Game.on_new (followed in sessions whose engine has not searched)
OnNew ==
    /\ history # <<>>
    /\ transposition_table = <<>>
    /\ LET r == on_new(board, ui)
       IN  SetBoard(r.board) /\ ui' = r.ui
    /\ op' = "new"
    /\ arg' = None
    /\ ret' = None
    /\ prev' = board
    /\ UNCHANGED <<aiVars, settings, game>>

\* Themes menu: Game.set_theme(theme_key)
SetTheme ==
    /\ op # "set_theme"
    /\ \E theme_key \in ThemeKeys :
          /\ LET r == set_theme(board, settings, theme_key)
             IN  SetBoard(r.board) /\ settings' = r.settings
          /\ arg' = theme_key
    /\ op' = "set_theme"
    /\ ret' = None
    /\ prev' = board
    /\ UNCHANGED <<aiVars, ui, game>>

\* the computer's turn while fewer than MaxMoves moves have been played
SessionAITurn == Len(ui.move_history) < MaxMoves /\ RunAITurn

NextSession ==
    \/ Click
    \/ SessionAITurn
    \/ OnUndo
    \/ OnRedo
    \/ OnNew
    \/ SetTheme

SpecSession == InitSession /\ [][NextSession]_vars

\* the same handlers after on_load
SpecLoaded == InitLoaded /\ [][NextSession]_vars

\* C22: in the session loop, whenever the game is not over and the side to
\* move is played by a human, that side has at least one legal move (a side
\* without one has been passed automatically), so the session never waits
\* for a click that cannot be legal.
C22_HumanToMoveHasAMove ==
    (/\ ~game_over(board)
     /\ ~ui.replay_mode
     /\ ~current_is_ai(board, settings))
       => legal_moves(board, to_move) # <<>>

-----------------------------------------------------------------------------
(* Computer against computer: both colors are AI-controlled and nothing but *)
(* the AI timer acts.  The run loop takes its AI branch on every frame on   *)
(* which the timer has run out and the branch's condition holds, so the     *)
(* branch is taken whenever its condition stays true (weak fairness on      *)
(* AIBranch, seen in op and prev).  ret holds Moves only: before the first  *)
(* turn it is NoMove.                                                       *)

InitAuto ==
    /\ \/ InitGameGave(NewBoard(4), "new", NoMove)
       \/ \E saved \in {SavedGame, SavedPass, SavedThree} :
            InitGameGave(deserialize(saved), "load", NoMove)
    /\ settings.ai_black
    /\ settings.ai_white

NextAuto == RunAITurn

SpecAuto == InitAuto /\ [][NextAuto]_vars /\ WF_<<op, prev>>(AIBranch)

\* the cells of grid g that hold a disc
Discs(g) == {x \in Cells(Len(g)) : at(g, x[1], x[2]) # EMPTY}

\* what one ai_turn_if_needed did to the board: one disc placed for the side
\* that was to move (and then a pass for the other side if it has no move),
\* or a pass of the side that was to move and had no move
TurnPlacedOrPassed ==
    LET entry == <<to_move, ret'.row, ret'.col>>
        n == Len(move_list)
        stuck == legal_moves(board', OPP(to_move)) = <<>>
    IN  IF ret' # NoMove
        THEN /\ Cardinality(Discs(grid')) = Cardinality(Discs(grid)) + 1
             /\ at(grid', ret'.row, ret'.col) = to_move
             /\ move_list' = IF stuck
                             THEN move_list \o <<entry, <<OPP(to_move), -1, -1>> >>
                             ELSE Append(move_list, entry)
             /\ to_move' = IF stuck THEN to_move ELSE OPP(to_move)
        ELSE /\ legal_moves(board, to_move) = <<>>
             /\ grid' = grid
             /\ move_list' = Append(move_list, <<to_move, -1, -1>>)
             /\ to_move' = OPP(to_move)

\* C23: with both colors AI-controlled and only the AI timer acting, the run
\* loop eventually reaches board.game_over(); every ai_turn_if_needed places
\* exactly one disc or passes, a side is passed only when it has no legal
\* move, and at most N*N-4 discs are placed.
C23_AutoPlayEnds ==
    /\ <>game_over(board)
    /\ [][op' = "ai_turn" => TurnPlacedOrPassed]_vars
    /\ [](MovesMade(board) <= size * size - 4)

\* a game played to its end by the computer in which the turn itself passed
\* and a side was passed after a move
C23_Witness ==
    /\ game_over(board)
    /\ op = "ai_turn"
    /\ \E i \in DOMAIN move_list : move_list[i][2] = -1
    /\ Len(ui.move_history) >= 4

(***************************************************************************)
(* C26: the UI move history against the board's move log                    *)
(***************************************************************************)

\* the entries of a move log that placed a disc
Placements(ml) == SelectSeq(ml, LAMBDA e : e[2] # -1)

\* C26: in every session state the UI move history has exactly one entry
\* per non-pass entry of the board's move log, in the same order, with the
\* same player and coordinates.
C26_MoveHistoryMatchesLog ==
    LET placed_log == Placements(move_list)
    IN  /\ Len(ui.move_history) = Len(placed_log)
        /\ \A i \in DOMAIN placed_log :
              /\ ui.move_history[i].player = placed_log[i][1]
              /\ ui.move_history[i].row = placed_log[i][2]
              /\ ui.move_history[i].col = placed_log[i][3]

(***************************************************************************)
(* C28: Game.set_theme and the board                                        *)
(***************************************************************************)

\* C28: set_theme leaves the board's grid, side to move, history, redo
\* stack and move log unchanged in every session state, including states
\* with a non-empty redo stack.
C28_SetThemeKeepsBoard ==
    op = "set_theme" => board = prev

(***************************************************************************)
(* C29: the depth for a side with many moves                                *)
(***************************************************************************)

\* C29: when choose faces more than 15 legal moves on a board at most 80%
\* full, the depth it searches to is never greater than max_depth, for every
\* max_depth in 1..6.
C29_ManyMovesDepthNotRaised ==
    (/\ op = "adaptive_depth"
     /\ Len(legal_moves(board, arg)) > 15
     /\ 5 * (score(board)[1] + score(board)[2]) <= 4 * (size * size))
    => ret <= max_depth

(***************************************************************************)
(* Replay mode: ReplayMode over the ui's move history                       *)
(***************************************************************************)

\* most moves played in a session that is then replayed
MaxReplayed == 4

RECURSIVE replay_entries(_, _, _, _)
\* `for i, entry in enumerate(self.game.ui.move_history[:move_index])`
\* from entry i on
replay_entries(b, entries, i, move_index) ==
    IF i > move_index \/ i > Len(entries) THEN b
    ELSE LET legal == legal_moves(b, b.to_move)
             hits == {j \in DOMAIN legal :
                         /\ legal[j].row = entries[i].row
                         /\ legal[j].col = entries[i].col}
         IN  replay_entries(IF hits = {} THEN b
                            ELSE make_move(b, legal[CHOOSE j \in hits : TRUE]),
                            entries, i + 1, move_index)

\* ReplayMode.restore_board_state(move_index)
restore_board_state(b, u, move_index) ==
    [board |-> replay_entries(NewBoard(b.size), u.move_history, 1, move_index),
     ui |-> [u EXCEPT !.replay_index = move_index]]

\* ReplayMode.enter_replay_mode
enter_replay_mode(b, u) ==
    IF u.move_history = <<>> THEN [board |-> b, ui |-> u]
    ELSE restore_board_state(b, [u EXCEPT !.replay_mode = TRUE,
                                          !.replay_index = 0], 0)

\* ReplayMode.exit_replay_mode
exit_replay_mode(b, u) ==
    IF u.move_history # <<>>
    THEN restore_board_state(b, [u EXCEPT !.replay_mode = FALSE],
                             Len(u.move_history))
    ELSE [board |-> b, ui |-> [u EXCEPT !.replay_mode = FALSE]]

\* ReplayMode.step_forward
step_forward(b, u) ==
    IF u.replay_index < Len(u.move_history)
    THEN restore_board_state(b, u, u.replay_index + 1)
    ELSE [board |-> b, ui |-> u]

\* ReplayMode.step_backward
step_backward(b, u) ==
    IF u.replay_index > 0
    THEN restore_board_state(b, u, u.replay_index - 1)
    ELSE [board |-> b, ui |-> u]

\* ReplayMode.go_to_start
go_to_start(b, u) == restore_board_state(b, u, 0)

\* ReplayMode.go_to_end
go_to_end(b, u) == restore_board_state(b, u, Len(u.move_history))

\* a session of two human players on a new 4x4 board
InitReplay ==
    /\ InitSession
    /\ ~settings.ai_black
    /\ ~settings.ai_white

\* MOUSEBUTTONDOWN on a cell of the board, outside replay mode
ReplayClick ==
    /\ ~ui.replay_mode
    /\ ~game_over(board)
    /\ ~current_is_ai(board, settings)
    /\ Len(ui.move_history) < MaxReplayed
    /\ \E x \in Cells(size) :
          LET r == clicked(Game_play(board, ui, x[1], x[2]))
          IN  /\ SetBoard(r.board)
              /\ ui' = r.ui
              /\ ret' = r.ret
    /\ op' = "click"
    /\ arg' = None
    /\ prev' = board
    /\ UNCHANGED <<aiVars, settings, game>>

\* the board and ui r a replay operation leaves
ReplayLeaves(r, name) ==
    /\ SetBoard(r.board)
    /\ ui' = r.ui
    /\ op' = name
    /\ ret' = None
    /\ prev' = board
    /\ UNCHANGED <<aiVars, settings, game>>

\* Game.on_toggle_replay outside replay mode; arg keeps the live board
EnterReplay ==
    /\ ~ui.replay_mode
    /\ ReplayLeaves(enter_replay_mode(board, ui), "enter_replay")
    /\ arg' = board

\* key Escape in replay mode, or Game.on_toggle_replay
ExitReplay ==
    /\ ui.replay_mode
    /\ ReplayLeaves(exit_replay_mode(board, ui), "exit_replay")
    /\ UNCHANGED arg

\* key Right in replay mode
StepForward ==
    /\ ui.replay_mode
    /\ ReplayLeaves(step_forward(board, ui), "step_forward")
    /\ UNCHANGED arg

\* key Left in replay mode
StepBackward ==
    /\ ui.replay_mode
    /\ ReplayLeaves(step_backward(board, ui), "step_backward")
    /\ UNCHANGED arg

\* key Home in replay mode
GoToStart ==
    /\ ui.replay_mode
    /\ ReplayLeaves(go_to_start(board, ui), "go_to_start")
    /\ UNCHANGED arg

\* key End in replay mode
GoToEnd ==
    /\ ui.replay_mode
    /\ ReplayLeaves(go_to_end(board, ui), "go_to_end")
    /\ UNCHANGED arg

NextReplay ==
    \/ ReplayClick
    \/ EnterReplay
    \/ ExitReplay
    \/ StepForward
    \/ StepBackward
    \/ GoToStart
    \/ GoToEnd

SpecReplay == InitReplay /\ [][NextReplay]_vars

ReplayOps ==
    {"enter_replay", "exit_replay", "step_forward", "step_backward",
     "go_to_start", "go_to_end"}

\* C27: with a non-empty move history, exiting replay mode after any
\* sequence of replay steps leaves the grid and the side to move the live
\* board had when replay mode was entered, and restore_board_state(k) shows
\* the position after the first k recorded moves: the one the (k+1)-th move
\* was played on, or the live one when k is the number of recorded moves.
C27_ReplayRestoresBoard ==
    (op \in ReplayOps /\ ui.move_history # <<>>) =>
       IF ui.replay_mode /\ ui.replay_index < Len(ui.move_history)
       THEN /\ grid = ui.move_history[ui.replay_index + 1].board_state
            /\ to_move = ui.move_history[ui.replay_index + 1].player
       ELSE /\ grid = arg.grid
            /\ to_move = arg.to_move

(***************************************************************************)
(* board.py: the Board of the simple game                                   *)
(***************************************************************************)

\* the while loop of Board._would_flip from cell (r, c) on
RECURSIVE would_flip_from(_, _, _, _, _, _, _)
would_flip_from(b, r, c, dr, dc, player, found_opponent) ==
    IF ~(0 <= r /\ r < b.size /\ 0 <= c /\ c < b.size) THEN FALSE
    ELSE IF at(b.grid, r, c) = EMPTY THEN FALSE
    ELSE IF at(b.grid, r, c) = 3 - player
    THEN would_flip_from(b, r + dr, c + dc, dr, dc, player, TRUE)
    ELSE IF at(b.grid, r, c) = player THEN found_opponent
    ELSE would_flip_from(b, r + dr, c + dc, dr, dc, player, found_opponent)

\* Board._would_flip(row, col, dr, dc, player)
would_flip(b, row, col, dr, dc, player) ==
    would_flip_from(b, row + dr, col + dc, dr, dc, player, FALSE)

\* Board.is_valid_move(row, col, player); its directions list is DIRS
is_valid_move(b, row, col, player) ==
    /\ at(b.grid, row, col) = EMPTY
    /\ \E d \in DOMAIN DIRS :
          would_flip(b, row, col, DIRS[d][1], DIRS[d][2], player)

\* the cells in the order of `for row ...: for col ...`
CellSeq(n) == [k \in 1 .. n * n |-> <<(k - 1) \div n, (k - 1) % n>>]

\* Board.get_valid_moves(player)
get_valid_moves(b, player) ==
    SelectSeq(CellSeq(b.size), LAMBDA x : is_valid_move(b, x[1], x[2], player))

\* the while loop of Board._flip_direction from cell (r, c) on: the cells it
\* flips and returns
RECURSIVE flip_from(_, _, _, _, _, _, _)
flip_from(b, r, c, dr, dc, player, to_flip) ==
    IF ~(0 <= r /\ r < b.size /\ 0 <= c /\ c < b.size) THEN <<>>
    ELSE IF at(b.grid, r, c) = 3 - player
    THEN flip_from(b, r + dr, c + dc, dr, dc, player,
                   Append(to_flip, <<r, c>>))
    ELSE IF at(b.grid, r, c) = player THEN to_flip
    ELSE <<>>

\* Board._flip_direction(row, col, dr, dc, player): the cells flipped
flip_direction(b, row, col, dr, dc, player) ==
    flip_from(b, row + dr, col + dc, dr, dc, player, <<>>)

\* `for dr, dc in directions: flipped.extend(...)` from direction d on; the
\* eight rays from (row, col) share no cell, so the flips of one direction
\* do not change what the next one reads
RECURSIVE flip_directions(_, _, _, _, _)
flip_directions(b, row, col, player, d) ==
    IF d > Len(DIRS) THEN <<>>
    ELSE flip_direction(b, row, col, DIRS[d][1], DIRS[d][2], player)
         \o flip_directions(b, row, col, player, d + 1)

\* Board.switch_player
switch_player(b) == [b EXCEPT !.current_player = 3 - b.current_player]

\* the grid with player on the cells of the set cells
with_discs(g, cells, player) ==
    [i \in DOMAIN g |-> [j \in DOMAIN g[i] |->
        IF <<i - 1, j - 1>> \in cells THEN player ELSE g[i][j]]]

\* Board.make_move(row, col, player): the board it leaves and the flipped
\* cells it returns
Board_make_move(b, row, col, player) ==
    IF ~is_valid_move(b, row, col, player) THEN [board |-> b, ret |-> <<>>]
    ELSE LET flipped == flip_directions(b, row, col, player, 1)
         IN  [board |-> switch_player(
                            [b EXCEPT !.grid =
                                with_discs(b.grid,
                                           {<<row, col>>} \cup Range(flipped),
                                           player)]),
              ret |-> flipped]

\* Board.get_score
get_score(b) ==
    <<Cardinality({x \in Cells(b.size) : at(b.grid, x[1], x[2]) = BLACK}),
      Cardinality({x \in Cells(b.size) : at(b.grid, x[1], x[2]) = WHITE})>>

\* the winner check_game_over records for the scores sc
winner_of(sc) ==
    IF sc[1] > sc[2] THEN BLACK ELSE IF sc[2] > sc[1] THEN WHITE ELSE 0

\* check_game_over once both lists of moves are known, with no skip of a
\* side that cannot move
check_game_over_noskip(b, black_moves, white_moves) ==
    IF black_moves = <<>> /\ white_moves = <<>>
    THEN [board |-> [b EXCEPT !.game_over = TRUE,
                              !.winner = winner_of(get_score(b))],
          ret |-> TRUE]
    ELSE [board |-> b, ret |-> FALSE]

\* check_game_over once both lists of moves are known
check_game_over_given(b, black_moves, white_moves) ==
    IF black_moves = <<>> /\ white_moves = <<>>
    THEN [board |-> [b EXCEPT !.game_over = TRUE,
                              !.winner = winner_of(get_score(b))],
          ret |-> TRUE]
    ELSE IF (IF b.current_player = BLACK THEN black_moves
             ELSE white_moves) = <<>>
    THEN [board |-> switch_player(b), ret |-> FALSE]
    ELSE [board |-> b, ret |-> FALSE]

\* Board.check_game_over(): the board it leaves and what it returns
check_game_over(b) ==
    check_game_over_given(b, get_valid_moves(b, BLACK),
                          get_valid_moves(b, WHITE))

(***************************************************************************)
(* Board (board.py) under its own operations                                *)
(***************************************************************************)

\* most discs on a board that make_move is still called on
MaxOnBoard == 9

\* the simple game g in a state where the Iago session is idle
InitSimple(g, how) ==
    /\ size = 4
    /\ grid = InitialGrid(4)
    /\ to_move = BLACK
    /\ history = <<>>
    /\ redo_stack = <<>>
    /\ move_list = <<>>
    /\ InitAI
    /\ settings = NewSettings
    /\ ui = NewUI
    /\ game = g
    /\ op = how
    /\ arg = None
    /\ ret = None
    /\ prev = g.board

\* Board(n) whose grid was then assigned by hand, as test_game_end does
GridSetByHand(n, g) == [Board_init(n) EXCEPT !.grid = g]

\* the grid of test_game_end: the upper half BLACK, the lower half empty
HalfBlack(n) ==
    [i \in 1 .. n |-> [j \in 1 .. n |->
        IF i <= n \div 2 THEN BLACK ELSE EMPTY]]

\* grids set by hand on a Board(4): BLACK cannot move and WHITE can; a full
\* board with eight discs each; a board WHITE has more discs on, where
\* nobody can move
GridsByHand ==
    { << <<2, 2, 2, 0>>, <<0, 1, 1, 0>>, <<0, 1, 1, 1>>, <<0, 0, 0, 0>> >>,
      << <<1, 1, 1, 1>>, <<1, 1, 1, 1>>, <<2, 2, 2, 2>>, <<2, 2, 2, 2>> >>,
      << <<2, 2, 2, 2>>, <<2, 2, 2, 2>>, <<0, 0, 0, 0>>, <<1, 0, 0, 0>> >>,
      HalfBlack(4) }

InitBoardPy ==
    \E b \in {Board_init(4), GridSetByHand(DEFAULT_BOARD_SIZE,
                                           HalfBlack(DEFAULT_BOARD_SIZE))}
             \cup {GridSetByHand(4, g) : g \in GridsByHand} :
       InitSimple([Game_init EXCEPT !.board = b], "new")

\* board.make_move(row, col, player) (arg keeps the cell and the player of a
\* move that was made)
BoardMakeMove ==
    /\ get_score(game.board)[1] + get_score(game.board)[2] < MaxOnBoard
    /\ \E x \in Cells(game.board.size), player \in {BLACK, WHITE} :
          LET r == Board_make_move(game.board, x[1], x[2], player)
          IN  /\ game' = [game EXCEPT !.board = r.board]
              /\ ret' = r.ret
              /\ arg' = IF r.ret = <<>> THEN None ELSE <<x, player>>
    /\ op' = "make_move"
    /\ prev' = game.board
    /\ UNCHANGED iagoVars

\* board.switch_player()
SwitchPlayer ==
    /\ game' = [game EXCEPT !.board = switch_player(game.board)]
    /\ op' = "switch_player"
    /\ arg' = None
    /\ ret' = None
    /\ prev' = game.board
    /\ UNCHANGED iagoVars

\* what check_game_over left and returned
CheckGameOverGave(r) ==
    /\ game' = [game EXCEPT !.board = r.board]
    /\ ret' = r.ret

\* board.check_game_over()
CheckGameOver ==
    /\ CheckGameOverGave(check_game_over(game.board))
    /\ op' = "check_game_over"
    /\ arg' = None
    /\ prev' = game.board
    /\ UNCHANGED iagoVars

NextBoardPy == BoardMakeMove \/ SwitchPlayer \/ CheckGameOver

SpecBoardPy == InitBoardPy /\ [][NextBoardPy]_vars

\* color has a legal cell on grid g by the rule of the game
CanMove(g, n, color) ==
    \E x \in Cells(n) : LegalCell(g, n, x[1], x[2], color)

\* C30: check_game_over sets game_over and returns True exactly when
\* neither player has a valid move, and then sets winner to the player with
\* strictly more discs (0 when the counts are equal); otherwise it returns
\* False, leaves game_over and winner unchanged, and switches
\* current_player only if the current player has no valid move.
C30_CheckGameOver ==
    op = "check_game_over" =>
       IF ~CanMove(prev.grid, prev.size, BLACK)
          /\ ~CanMove(prev.grid, prev.size, WHITE)
       THEN /\ ret = TRUE
            /\ game.board.game_over = TRUE
            /\ game.board.winner =
                  IF Count(prev.grid, BLACK)
                        > Count(prev.grid, WHITE) THEN BLACK
                  ELSE IF Count(prev.grid, WHITE)
                             > Count(prev.grid, BLACK) THEN WHITE
                  ELSE 0
       ELSE /\ ret = FALSE
            /\ game.board.game_over = prev.game_over
            /\ game.board.winner = prev.winner
            /\ game.board.current_player =
                  IF CanMove(prev.grid, prev.size, prev.current_player)
                  THEN prev.current_player
                  ELSE 3 - prev.current_player

\* check_game_over found a played board with empty cells on which nobody
\* can move, and recorded BLACK as the winner
C30_Witness ==
    /\ op = "check_game_over"
    /\ ret = TRUE
    /\ prev.game_over = FALSE
    /\ game.board.winner = BLACK
    /\ game.board.size = 4
    /\ Count(game.board.grid, BLACK) = 6
    /\ Count(game.board.grid, WHITE) = 0

(***************************************************************************)
(* ai.py: the AI of the simple game                                         *)
(***************************************************************************)

\* Python's None where a (row, col) tuple is expected
NoCell == <<>>

\* AI._copy_board(board): Board() has the default size
copy_board(b) ==
    [Board_init(DEFAULT_BOARD_SIZE) EXCEPT
        !.grid = b.grid, !.current_player = b.current_player,
        !.game_over = b.game_over, !.winner = b.winner]

\* AI._calculate_positional_value(board, player)
calculate_positional_value(b, player) ==
    LET n == b.size
        corners == {x \in Cells(n) : x[1] \in {0, n - 1} /\ x[2] \in {0, n - 1}}
        edges == {x \in Cells(n) \ corners :
                     x[1] \in {0, n - 1} \/ x[2] \in {0, n - 1}}
    IN  100 * Cardinality({x \in corners : at(b.grid, x[1], x[2]) = player})
        + 10 * Cardinality({x \in edges : at(b.grid, x[1], x[2]) = player})

\* AI._calculate_corner_value(board, player)
calculate_corner_value(b, player) ==
    Cardinality({x \in Cells(b.size) :
                    /\ x[1] \in {0, b.size - 1}
                    /\ x[2] \in {0, b.size - 1}
                    /\ at(b.grid, x[1], x[2]) = player})

\* AI._calculate_edge_value(board, player)
calculate_edge_value(b, player) ==
    Cardinality({x \in Cells(b.size) :
                    /\ (x[1] \in {0, b.size - 1}) # (x[2] \in {0, b.size - 1})
                    /\ at(b.grid, x[1], x[2]) = player})

\* AI._evaluate_board_advanced(board)
evaluate_board_advanced(b) ==
    IF b.game_over
    THEN (IF b.winner = b.current_player THEN 10000
          ELSE IF b.winner = 0 THEN 0 ELSE -10000)
    ELSE LET current_player == b.current_player
             opponent == 3 - b.current_player
         IN  (get_score(b)[current_player] - get_score(b)[opponent]) * 10
             + (calculate_positional_value(b, current_player)
                - calculate_positional_value(b, opponent))
             + 10 * (Len(get_valid_moves(b, current_player))
                     - Len(get_valid_moves(b, opponent)))
             + (calculate_corner_value(b, current_player)
                - calculate_corner_value(b, opponent)) * 20
             + (calculate_edge_value(b, current_player)
                - calculate_edge_value(b, opponent)) * 5

\* the three lines that try a move in the search: copy, make_move for the
\* board's current player, switch_player
tried(b, move) ==
    switch_player(Board_make_move(copy_board(b), move[1], move[2],
                                  b.current_player).board)

\* a visit of the lookahead: a node that enumerates moves, reached by a move
\* of mover; player is the side whose moves it enumerates
Visit(b, checked, mover) ==
    [mover |-> mover, player |-> checked.current_player,
     other_can_move |-> get_valid_moves(b, 3 - mover) # <<>>]

RECURSIVE minimax_alpha_beta(_, _, _, _, _, _)
RECURSIVE minimax_moves(_, _, _, _, _, _, _, _)

\* the result of the rest of the loop with the visits below move i
minimax_with(r, rest) ==
    [score |-> rest.score, visits |-> r.visits \cup rest.visits]

\* the body of `for move in valid_moves` once the move's subtree, r, has been
\* searched and the new best and bounds are known: the cutoff or the rest
minimax_cut(b, valid_moves, i, depth, maximizing, alpha, beta, best, r) ==
    IF beta <= alpha
    THEN [score |-> best, visits |-> r.visits]
    ELSE minimax_with(r, minimax_moves(b, valid_moves, i + 1, depth,
                                       maximizing, alpha, beta, best))

\* the body of `for move in valid_moves` once the move's subtree, r, has been
\* searched
minimax_step(b, valid_moves, i, depth, maximizing, alpha, beta, best, r) ==
    IF maximizing
    THEN minimax_cut(b, valid_moves, i, depth, maximizing,
                     max(alpha, r.score), beta, max(best, r.score), r)
    ELSE minimax_cut(b, valid_moves, i, depth, maximizing,
                     alpha, min(beta, r.score), min(best, r.score), r)

\* the loop `for move in valid_moves` of either branch, from move i on
minimax_moves(b, valid_moves, i, depth, maximizing, alpha, beta, best) ==
    IF i > Len(valid_moves) THEN [score |-> best, visits |-> {}]
    ELSE minimax_step(b, valid_moves, i, depth, maximizing, alpha, beta, best,
                      minimax_alpha_beta(tried(b, valid_moves[i]), depth - 1,
                                         ~maximizing, alpha, beta,
                                         b.current_player))

\* the value and the visits of a node that enumerated valid_moves, given
\* the result r of its loop
minimax_visited(b, checked, mover, r) ==
    [score |-> r.score, visits |-> {Visit(b, checked, mover)} \cup r.visits]

\* _minimax_alpha_beta from `valid_moves = ...` on, on the board
\* check_game_over left
minimax_node(b, checked, valid_moves, depth, maximizing, alpha, beta, mover) ==
    IF valid_moves = <<>>
    THEN minimax_alpha_beta(switch_player(copy_board(checked)), depth - 1,
                            ~maximizing, alpha, beta, mover)
    ELSE minimax_visited(b, checked, mover,
                         minimax_moves(checked, valid_moves, 1, depth,
                                       maximizing, alpha, beta,
                                       IF maximizing THEN -Inf ELSE Inf))

\* _minimax_alpha_beta once check_game_over has answered over
minimax_checked(b, over, depth, maximizing, alpha, beta, mover) ==
    IF over.ret
    THEN [score |-> evaluate_board_advanced(over.board), visits |-> {}]
    ELSE minimax_node(b, over.board,
                      get_valid_moves(over.board, over.board.current_player),
                      depth, maximizing, alpha, beta, mover)

\* AI._minimax_alpha_beta(board, depth, maximizing, alpha, beta) on a board
\* reached by a move of mover: its value and the visits below it.
\* `depth == 0 or board.check_game_over()` does not call check_game_over at
\* depth 0
minimax_alpha_beta(b, depth, maximizing, alpha, beta, mover) ==
    IF depth = 0
    THEN [score |-> evaluate_board_advanced(b), visits |-> {}]
    ELSE minimax_checked(b, check_game_over(b), depth, maximizing, alpha,
                         beta, mover)

RECURSIVE best_move_minimax(_, _, _, _, _, _, _)

\* the body of the loop of _get_best_move_minimax once the move's subtree,
\* r, has been searched
best_move_step(b, valid_moves, i, depth, best_move, best_score, alpha, r) ==
    IF r.score > best_score
    THEN best_move_minimax(b, valid_moves, i + 1, depth, valid_moves[i],
                           r.score, max(alpha, r.score))
    ELSE best_move_minimax(b, valid_moves, i + 1, depth, best_move,
                           best_score, max(alpha, best_score))

\* the move the rest of the loop gave, with the visits below move i
best_move_with(r, rest) ==
    [move |-> rest.move, visits |-> r.visits \cup rest.visits]

\* the loop of AI._get_best_move_minimax from move i on
best_move_searched(b, valid_moves, i, depth, best_move, best_score, alpha, r) ==
    best_move_with(r, best_move_step(b, valid_moves, i, depth, best_move,
                                     best_score, alpha, r))

best_move_minimax(b, valid_moves, i, depth, best_move, best_score, alpha) ==
    IF i > Len(valid_moves) THEN [move |-> best_move, visits |-> {}]
    ELSE best_move_searched(b, valid_moves, i, depth, best_move, best_score,
                            alpha,
                            minimax_alpha_beta(tried(b, valid_moves[i]),
                                               depth - 1, FALSE, alpha, Inf,
                                               b.current_player))

\* AI._get_best_move_minimax(board, valid_moves)
get_best_move_minimax(b, valid_moves, difficulty) ==
    best_move_minimax(b, valid_moves, 1, IF difficulty = 3 THEN 4 ELSE 2,
                      NoCell, -Inf, -Inf)

\* the score AI._get_best_move_simple gives a move
simple_score(b, move) ==
    LET n == b.size
        on_border(k) == k \in {0, n - 1}
    IN  IF on_border(move[1]) /\ on_border(move[2]) THEN 11
        ELSE IF on_border(move[1]) \/ on_border(move[2]) THEN 4
        ELSE IF /\ n \div 2 - 1 <= move[1] /\ move[1] <= n \div 2 + 1
                /\ n \div 2 - 1 <= move[2] /\ move[2] <= n \div 2 + 1
        THEN 3
        ELSE 1

\* AI._get_best_move_simple(board, valid_moves): the first move with the
\* highest score
get_best_move_simple(b, valid_moves) ==
    LET top == CHOOSE s \in {simple_score(b, valid_moves[i]) :
                                i \in DOMAIN valid_moves} :
                  \A i \in DOMAIN valid_moves :
                     simple_score(b, valid_moves[i]) <= s
        first == CHOOSE i \in DOMAIN valid_moves :
                    /\ simple_score(b, valid_moves[i]) = top
                    /\ \A j \in 1 .. i - 1 :
                          simple_score(b, valid_moves[j]) < top
    IN  valid_moves[first]

\* AI.get_move(board) at the given difficulty: the moves it can return
\* (None when there is none; any valid move at difficulty 1) and the visits
\* of its lookahead
get_move(b, difficulty) ==
    LET valid_moves == get_valid_moves(b, b.current_player)
    IN  IF valid_moves = <<>> THEN [moves |-> {NoCell}, visits |-> {}]
        ELSE IF difficulty = 1
        THEN [moves |-> Range(valid_moves), visits |-> {}]
        ELSE IF difficulty = 2
        THEN [moves |-> {get_best_move_simple(b, valid_moves)}, visits |-> {}]
        ELSE LET r == get_best_move_minimax(b, valid_moves, difficulty)
             IN  [moves |-> {r.move}, visits |-> r.visits]

(***************************************************************************)
(* game.py: the simple game                                                 *)
(***************************************************************************)

\* most clicks played and not undone since the game was started or loaded
MaxClicks == 2

\* the GameState that save_game_state, undo_move and redo_move build from
\* the board
GameState(b) ==
    [board_grid |-> b.grid, current_player |-> b.current_player,
     black_score |-> get_score(b)[1], white_score |-> get_score(b)[2],
     game_over |-> b.game_over, winner |-> b.winner]

\* Game.save_game_state
save_game_state(g) ==
    [g EXCEPT !.move_history = Append(@, GameState(g.board)),
              !.redo_stack = <<>>]

\* the four assignments that restore the board from a GameState
restored(b, state) ==
    [b EXCEPT !.grid = state.board_grid,
              !.current_player = state.current_player,
              !.game_over = state.game_over,
              !.winner = state.winner]

\* Game.undo_move
undo_move(g) ==
    IF g.move_history = <<>> THEN g
    ELSE [g EXCEPT
            !.redo_stack = Append(@, GameState(g.board)),
            !.move_history = SubSeq(@, 1, Len(@) - 1),
            !.board = restored(@, g.move_history[Len(g.move_history)])]

\* Game.redo_move
redo_move(g) ==
    IF g.redo_stack = <<>> THEN g
    ELSE [g EXCEPT
            !.move_history = Append(@, GameState(g.board)),
            !.redo_stack = SubSeq(@, 1, Len(@) - 1),
            !.board = restored(@, g.redo_stack[Len(g.redo_stack)])]

\* key R of Game.handle_key: board.reset() and both stacks cleared
reset_game(g) ==
    [g EXCEPT !.board = Board_init(g.board.size),
              !.move_history = <<>>,
              !.redo_stack = <<>>]

\* the end of make_player_move, on the board check_game_over left
ai_scheduled(g, b) ==
    [g EXCEPT !.board = b,
              !.ai_thinking = IF ~b.game_over /\ b.current_player = g.ai_color
                              THEN TRUE ELSE @]

\* Game.make_player_move(row, col)
make_player_move(g, row, col) ==
    ai_scheduled(save_game_state(g),
                 check_game_over(
                    switch_player(
                       Board_make_move(g.board, row, col,
                                       g.player_color).board)).board)

\* Game.handle_click on the cell (row, col) of the board
handle_click(g, row, col) ==
    IF /\ g.board.current_player = g.player_color
       /\ is_valid_move(g.board, row, col, g.player_color)
    THEN make_player_move(g, row, col)
    ELSE g

\* Game.update once get_move has answered move
update(g, move) ==
    IF g.ai_thinking /\ g.board.current_player = g.ai_color
    THEN [g EXCEPT
            !.board = IF move = NoCell THEN @
                      ELSE check_game_over(
                              switch_player(
                                 Board_make_move(@, move[1], move[2],
                                                 g.ai_color).board)).board,
            !.ai_thinking = FALSE]
    ELSE g

\* ten moves of a game played by the rules, BLACK to move after them
SavedSimpleClicks ==
    << <<4, 5>>, <<3, 5>>, <<2, 6>>, <<3, 6>>, <<4, 6>>, <<5, 4>>, <<2, 3>>,
       <<5, 7>>, <<5, 6>>, <<4, 7>> >>

\* Game() after load_game of a file that holds that position
LoadedSimple(ai_difficulty) ==
    [Game_init EXCEPT
        !.board.grid = play_all(NewBoard(DEFAULT_BOARD_SIZE),
                                SavedSimpleClicks).grid,
        !.difficulty = ai_difficulty]

\* Game(), or Game() after load_game
InitSimpleGame ==
    \/ InitSimple(Game_init, "new")
    \/ \E ai_difficulty \in {1, 2} :
          InitSimple(LoadedSimple(ai_difficulty), "load")

\* the frame of the actions of the simple game
SimpleLeaves(name) ==
    /\ op' = name
    /\ ret' = None
    /\ prev' = game.board
    /\ UNCHANGED iagoVars

\* MOUSEBUTTONDOWN on cell x (arg keeps the cell of a click that moved)
HandleClick ==
    /\ Len(game.move_history) < MaxClicks
    /\ \E x \in Cells(game.board.size) :
          /\ game' = handle_click(game, x[1], x[2])
          /\ arg' = IF game' = game THEN NoCell ELSE x
    /\ SimpleLeaves("click")

\* Game.update in one pass of Game.run (arg keeps the move the AI made)
Update ==
    /\ \E move \in (IF game.ai_thinking
                       /\ game.board.current_player = game.ai_color
                    THEN get_move(game.board, game.difficulty).moves
                    ELSE {NoCell}) :
          /\ game' = update(game, move)
          /\ arg' = move
    /\ SimpleLeaves("update")

\* key U
UndoMove ==
    /\ game' = undo_move(game)
    /\ arg' = NoCell
    /\ SimpleLeaves("undo")

\* key Y
RedoMove ==
    /\ game' = redo_move(game)
    /\ arg' = NoCell
    /\ SimpleLeaves("redo")

\* key R
ResetGame ==
    /\ game' = reset_game(game)
    /\ arg' = NoCell
    /\ SimpleLeaves("reset")

NextSimple == HandleClick \/ Update \/ UndoMove \/ RedoMove \/ ResetGame

SpecSimple == InitSimpleGame /\ [][NextSimple]_vars

\* C24: in the simple game, after a successful human move the side to move
\* is the AI whenever the AI has a valid move, and the AI is then scheduled;
\* after the AI's move in update the side to move is the human whenever the
\* human has a valid move; and no position in which a side can move is
\* reached where neither the click handler nor the AI step can move.
C24_TurnsAlternate ==
    LET b == game.board
        can(color) == CanMove(b.grid, b.size, color)
    IN  /\ (op = "click" /\ arg # NoCell /\ can(game.ai_color))
           => (b.current_player = game.ai_color /\ game.ai_thinking)
        /\ (op = "update" /\ arg # NoCell /\ can(game.player_color))
           => b.current_player = game.player_color
        /\ (can(BLACK) \/ can(WHITE))
           => \/ b.current_player = game.player_color /\ can(game.player_color)
              \/ /\ game.ai_thinking
                 /\ b.current_player = game.ai_color
                 /\ can(game.ai_color)

(***************************************************************************)
(* AI.get_move (ai.py) on the boards of a game                              *)
(***************************************************************************)

\* most discs on a board that a move is still played on
MaxPlayed == 7

\* most discs on a board the lookahead of difficulty 3 is run on
MaxSearched == 6

\* Game() with AI(difficulty)
InitMinimax ==
    \E difficulty \in 1 .. 3 :
       InitSimple([Game_init EXCEPT !.difficulty = difficulty], "new")

\* a valid move of the side to move, played with board.make_move
PlayMove ==
    /\ get_score(game.board)[1] + get_score(game.board)[2] < MaxPlayed
    /\ \E x \in Range(get_valid_moves(game.board, game.board.current_player)) :
          /\ game' = [game EXCEPT !.board =
                         Board_make_move(@, x[1], x[2],
                                         game.board.current_player).board]
          /\ arg' = x
    /\ op' = "make_move"
    /\ ret' = None
    /\ prev' = game.board
    /\ UNCHANGED iagoVars

\* what get_move returned: ret is the move, arg the visits of its lookahead
GetMoveGave(r) ==
    /\ \E move \in r.moves : ret' = move
    /\ arg' = r.visits

\* ai.get_move(board)
GetMove ==
    /\ game.difficulty = 3
       => get_score(game.board)[1] + get_score(game.board)[2] <= MaxSearched
    /\ GetMoveGave(get_move(game.board, game.difficulty))
    /\ op' = "get_move"
    /\ prev' = game.board
    /\ UNCHANGED <<iagoVars, game>>

NextMinimax == PlayMove \/ GetMove

SpecMinimax == InitMinimax /\ [][NextMinimax]_vars

\* C25: in the lookahead, a node reached by a move enumerates the valid
\* moves of the opponent of the player who just moved, unless that opponent
\* has no valid move and is skipped.
C25_LookaheadAlternates ==
    op = "get_move" =>
       \A v \in arg : v.other_can_move => v.player = 3 - v.mover

====
